---- MODULE Spec2Model ----
(***************************************************************************)
(* PanPhlAn profile (panphlan_profile.py): the coverage-classification     *)
(* pipeline.  Family coverages are modelled as exact rationals <<n, d>>    *)
(* (d > 0, lowest terms); for the small integers used here a correctly     *)
(* rounded double division compares against the thresholds exactly as the  *)
(* rational does.                                                          *)
(***************************************************************************)
EXTENDS Integers, Sequences, FiniteSets, TLC

(***************************************************************************)
(* Rational arithmetic (Python float arithmetic of the source).            *)
(***************************************************************************)
Abs(x) == IF x < 0 THEN -x ELSE x

RECURSIVE Gcd(_, _)
Gcd(a, b) == IF b = 0 THEN a ELSE Gcd(b, a % b)

\* n / d in lowest terms, d # 0
Rat(n, d) ==
    LET g == Gcd(Abs(n), Abs(d))
        s == IF d < 0 THEN -1 ELSE 1
    IN  <<(s * n) \div g, (s * d) \div g>>

Int2Rat(n) == <<n, 1>>

RZero == <<0, 1>>

RLt(a, b) == a[1] * b[2] < b[1] * a[2]

RLe(a, b) == a[1] * b[2] <= b[1] * a[2]

REq(a, b) == a[1] * b[2] = b[1] * a[2]

RAdd(a, b) == Rat(a[1] * b[2] + b[1] * a[2], a[2] * b[2])

\* a / b, b # 0
RDiv(a, b) == Rat(a[1] * b[2], a[2] * b[1])

RMul(a, b) == Rat(a[1] * b[1], a[2] * b[2])

Min(a, b) == IF a < b THEN a ELSE b

\* the elements of a sequence
Range(s) == {s[i] : i \in 1..Len(s)}

(***************************************************************************)
(* index_of and presence_of                                                *)
(***************************************************************************)
PRESENT == 1

MULTICOPY == -1

AMBIGUOUS == -2

ABSENT == -3

\* index_of with < in place of <= at max_thresh
index_of_strict_max(min_thresh, med_thresh, max_thresh, normalized_coverage) ==
    IF RLt(normalized_coverage, min_thresh) THEN -3
    ELSE IF RLe(normalized_coverage, med_thresh) THEN -2
    ELSE IF RLt(normalized_coverage, max_thresh) THEN 1
    ELSE -1

\* index_of with < in place of <= at med_thresh
index_of_strict_med(min_thresh, med_thresh, max_thresh, normalized_coverage) ==
    IF RLt(normalized_coverage, min_thresh) THEN -3
    ELSE IF RLt(normalized_coverage, med_thresh) THEN -2
    ELSE IF RLe(normalized_coverage, max_thresh) THEN 1
    ELSE -1

index_of(min_thresh, med_thresh, max_thresh, normalized_coverage) ==
    IF RLt(normalized_coverage, min_thresh) THEN -3
    ELSE IF RLe(normalized_coverage, med_thresh) THEN -2
    ELSE IF RLe(normalized_coverage, max_thresh) THEN 1
    ELSE -1

\* presence_of with > in place of >=
presence_of_strict(dna_index) == dna_index > -1

presence_of(dna_index) == dna_index >= -1

(***************************************************************************)
(* build_mappings and families_coverages                                   *)
(***************************************************************************)
RECURSIVE SumSeq(_)
SumSeq(s) == IF s = <<>> THEN 0 ELSE Head(s) + SumSeq(Tail(s))

\* the elements of a set of integers, ascending (sorted(...))
SortedSeq(S) ==
    IF S = {} THEN <<>>
    ELSE LET lo == CHOOSE x \in S : \A y \in S : x <= y
             hi == CHOOSE x \in S : \A y \in S : y <= x
             In(x) == x \in S
         IN  SelectSeq([i \in 1..(hi - lo + 1) |-> lo + i - 1], In)

\* a sequence of integers, ascending
RECURSIVE InsertAsc(_, _)
InsertAsc(x, s) ==
    IF s = <<>> THEN <<x>>
    ELSE IF x <= Head(s) THEN <<x>> \o s
    ELSE <<Head(s)>> \o InsertAsc(x, Tail(s))

RECURSIVE SortAsc(_)
SortAsc(s) == IF s = <<>> THEN <<>> ELSE InsertAsc(Head(s), SortAsc(Tail(s)))

\* numpy.median of a non-empty sequence of integers, as a rational
\* variant: the mean, as in the line commented out in build_mappings
MedianInt_mean(s) == Rat(SumSeq(s), Len(s))

MedianInt(s) ==
    LET asc == SortAsc(s)
        n   == Len(s)
    IN  IF n % 2 = 1 THEN Int2Rat(asc[(n + 1) \div 2])
        ELSE Rat(asc[n \div 2] + asc[n \div 2 + 1], 2)

\* int(x) of a non-negative rational
IntOf(r) == r[1] \div r[2]

\* One pangenome row is [fml, gene, genome, fr, to].  The loop of
\* build_mappings over the rows, in file order: an assignment to a key of a
\* dict replaces what an earlier row assigned, a set gathers every row's
\* element.
build_mappings(pangenome_file) ==
    LET rows == DOMAIN pangenome_file
        last(gene) == CHOOSE i \in rows :
                         /\ pangenome_file[i].gene = gene
                         /\ \A j \in rows : pangenome_file[j].gene = gene => j <= i
        genes == {pangenome_file[i].gene : i \in rows}
        gene_lengths == [g \in genes |->
                           Abs(pangenome_file[last(g)].to - pangenome_file[last(g)].fr) + 1]
        gene2family == [g \in genes |-> pangenome_file[last(g)].fml]
        families == {pangenome_file[i].fml : i \in rows}
        genome2families == [x \in {pangenome_file[i].genome : i \in rows} |->
                              {pangenome_file[i].fml :
                                  i \in {j \in rows : pangenome_file[j].genome = x}}]
        genomes == SortedSeq(DOMAIN genome2families)
        genome_lengths == [i \in 1..Len(genomes) |->
                              Cardinality(genome2families[genomes[i]])]
    IN  [gene_lengths      |-> gene_lengths,
         gene2family       |-> gene2family,
         families          |-> SortedSeq(families),
         avg_genome_length |-> IntOf(MedianInt(genome_lengths)),
         genome2families   |-> genome2families]

\* family2cov[f] as the list of (coverage, length) pairs of its genes
RECURSIVE family2cov_list(_, _, _, _, _)
family2cov_list(genes, f, gene2cov, gene2family, lengths) ==
    IF genes = <<>> THEN <<>>
    ELSE LET g == Head(genes)
             rest == family2cov_list(Tail(genes), f, gene2cov, gene2family, lengths)
         IN  IF gene2family[g] # f THEN rest
             ELSE IF g \in DOMAIN gene2cov
                  THEN <<(<<gene2cov[g], lengths[g]>>)>> \o rest
                  ELSE <<(<<0, lengths[g]>>)>> \o rest

\* families_coverages dividing by the sum of the gene lengths
families_coverages_no_len_norm(gene2cov, gene2family, lengths) ==
    LET genes == SortedSeq(DOMAIN gene2family)
        fams  == {gene2family[g] : g \in DOMAIN gene2family}
    IN  [f \in fams |->
            LET l == family2cov_list(genes, f, gene2cov, gene2family, lengths)
            IN  RDiv(Int2Rat(SumSeq([i \in 1..Len(l) |-> l[i][1]])),
                     Int2Rat(SumSeq([i \in 1..Len(l) |-> l[i][2]])))]

families_coverages(gene2cov, gene2family, lengths) ==
    LET genes == SortedSeq(DOMAIN gene2family)
        fams  == {gene2family[g] : g \in DOMAIN gene2family}
    IN  [f \in fams |->
            LET l == family2cov_list(genes, f, gene2cov, gene2family, lengths)
                sum_of_covs == Int2Rat(SumSeq([i \in 1..Len(l) |-> l[i][1]]))
                sum_of_lens == Int2Rat(SumSeq([i \in 1..Len(l) |-> l[i][2]]))
            IN  RDiv(sum_of_covs, RDiv(sum_of_lens, Int2Rat(Len(l))))]

(***************************************************************************)
(* dna_sample_filtering                                                    *)
(***************************************************************************)
\* the coverages of d over the families fams, sorted descending
SortedCovsDesc(d, fams) ==
    LET Above(a, b) == RLt(b, a)
    IN  SortSeq([i \in 1..Len(fams) |-> d[fams[i]]], Above)

\* the upper middle element in place of the mean of the two middle ones
MedianOfSorted_upper(s) == s[(Len(s) + 1) \div 2]

\* numpy.median of a non-empty descending sequence of rationals
MedianOfSorted(s) ==
    LET n == Len(s)
    IN  IF n % 2 = 1 THEN s[(n + 1) \div 2]
        ELSE RDiv(RAdd(s[n \div 2], s[n \div 2 + 1]), Int2Rat(2))

\* the largest power of two strictly below q (q >= 2)
RECURSIVE Pow2Below(_, _)
Pow2Below(q, p) == IF 2 * p < q THEN Pow2Below(q, 2 * p) ELSE p

\* int(genome_length * 0.3) in IEEE double arithmetic: the double nearest
\* 0.3 lies below 0.3 by 0.1 * 2^-53, which never moves the product across
\* an integer.
plateau_left_rank(genome_length) == (3 * genome_length) \div 10

\* int(genome_length * 0.7) in IEEE double arithmetic: the double nearest
\* 0.7 lies below 0.7 by 0.4 * 2^-53; when 0.7 * genome_length is an integer
\* q and 0.4 * genome_length exceeds the largest power of two below q, the
\* product rounds to the double just below q and int() gives q - 1
\* (int(90 * 0.7) = 62).
\* variant: the right rank at the whole genome length
plateau_right_rank_whole(genome_length) == genome_length

plateau_right_rank(genome_length) ==
    LET q == (7 * genome_length) \div 10
        r == (7 * genome_length) % 10
    IN  IF r = 0 /\ q >= 2 /\ 4 * genome_length > 10 * Pow2Below(q, 1)
        THEN q - 1 ELSE q

\* normed_cov that leaves the coverage as it is when the median is 0
normed_cov_raw_at_zero(cov, median) ==
    IF REq(median, RZero) THEN cov ELSE RDiv(cov, median)

normed_cov(cov, median) == IF REq(median, RZero) THEN RZero ELSE RDiv(cov, median)

\* One pass of the loop of dna_sample_filtering, for the sample whose family
\* coverages are d.  raises: the list index is out of range.
filter_sample(d, genome_length, threshold, threshold_plateau_left_max, threshold_plateau_right_min, fams) ==
    LET families_covs == SortedCovsDesc(d, fams)
        top    == SubSeq(families_covs, 1, Min(genome_length, Len(families_covs)))
        median == MedianOfSorted(top)
        mnc    == [i \in 1..Len(families_covs) |-> normed_cov(families_covs[i], median)]
        norm   == [f \in Range(fams) |-> normed_cov(d[f], median)]
        li     == plateau_left_rank(genome_length) + 1
        ri     == plateau_right_rank(genome_length) + 1
        filter1 == RLe(threshold, median)
        raises == filter1 /\ (li > Len(mnc) \/ ri > Len(mnc))
        accepted == IF ~filter1 THEN FALSE
                    ELSE IF raises THEN FALSE
                    ELSE IF RLt(threshold_plateau_left_max, mnc[li]) THEN FALSE
                    ELSE IF RLt(mnc[ri], threshold_plateau_right_min) THEN FALSE
                    ELSE TRUE
    IN  [median |-> median, median_normalized_covs |-> mnc,
         norm |-> norm, accepted |-> accepted, raises |-> raises]

\* dna_sample_filtering with filter 1 applied to the samples together: a
\* sample is accepted only if the median of every sample reaches the threshold
dna_sample_filtering_pooled(samples_coverages, genome_length, threshold, threshold_plateau_left_max, threshold_plateau_right_min, fams) ==
    LET r == [s \in DOMAIN samples_coverages |->
                 filter_sample(samples_coverages[s], genome_length, threshold,
                               threshold_plateau_left_max,
                               threshold_plateau_right_min, fams)]
        ok(s) == r[s].accepted /\ \A t \in DOMAIN r : RLe(threshold, r[t].median)
    IN  [sample2accepted        |-> [s \in DOMAIN r |-> ok(s)],
         accepted_samples_list  |-> SortedSeq({s \in DOMAIN r : ok(s)}),
         norm_samples_coverages |-> [s \in DOMAIN r |-> r[s].norm],
         median_normalized_covs |-> [s \in DOMAIN r |-> r[s].median_normalized_covs],
         median                 |-> [s \in DOMAIN r |-> r[s].median],
         raises                 |-> \E s \in DOMAIN r : r[s].raises]

\* dna_sample_filtering over all the samples of samples_coverages
dna_sample_filtering(samples_coverages, genome_length, threshold, threshold_plateau_left_max, threshold_plateau_right_min, fams) ==
    LET r == [s \in DOMAIN samples_coverages |->
                 filter_sample(samples_coverages[s], genome_length, threshold,
                               threshold_plateau_left_max,
                               threshold_plateau_right_min, fams)]
    IN  [sample2accepted        |-> [s \in DOMAIN r |-> r[s].accepted],
         accepted_samples_list  |-> SortedSeq({s \in DOMAIN r : r[s].accepted}),
         norm_samples_coverages |-> [s \in DOMAIN r |-> r[s].norm],
         median_normalized_covs |-> [s \in DOMAIN r |-> r[s].median_normalized_covs],
         median                 |-> [s \in DOMAIN r |-> r[s].median],
         raises                 |-> \E s \in DOMAIN r : r[s].raises]

(***************************************************************************)
(* Output files: a file is [written, cols, rows]; a row is [family, cells] *)
(* (in the gene-hit report [family |-> the strain, cells]).                *)
(***************************************************************************)
NoFile == [written |-> FALSE, cols |-> <<>>, rows |-> <<>>]

File(cols, rows) == [written |-> TRUE, cols |-> cols, rows |-> rows]

\* sample_name(path, clade): the sample id of a coverage file; distinct
\* files have distinct ids.
sample_name(sample) == <<"sample", sample>>

strain_name(strain) == <<"strain", strain>>

\* the subsequence of s whose elements are in S
SelectIn(s, S) ==
    LET In(x) == x \in S
    IN  SelectSeq(s, In)

FormatDec(v, scale) ==
    LET n == v[1] * scale
        q == n \div v[2]
        r == n % v[2]
    IN  IF 2 * r > v[2] THEN q + 1
        ELSE IF 2 * r < v[2] THEN q
        ELSE IF q % 2 = 0 THEN q ELSE q + 1

RECURSIVE RSum(_, _)
RSum(d, S) ==
    IF S = {} THEN RZero
    ELSE LET x == CHOOSE x \in S : TRUE IN RAdd(d[x], RSum(d, S \ {x}))

(***************************************************************************)
(* print_coverage_matrix                                                   *)
(***************************************************************************)
print_coverage_matrix(files_list, samples_covs, out_channel, fams) ==
    IF ~out_channel THEN NoFile
    ELSE LET ids  == files_list
             keep == {f \in Range(fams) :
                         RLt(RZero, RSum([s \in DOMAIN samples_covs |-> samples_covs[s][f]],
                                         DOMAIN samples_covs))}
             rowf == SelectIn(fams, keep)
         IN  File([i \in 1..Len(ids) |-> sample_name(ids[i])],
                  [k \in 1..Len(rowf) |->
                      [family |-> rowf[k],
                       cells  |-> [i \in 1..Len(ids) |->
                                     FormatDec(samples_covs[ids[i]][rowf[k]], 1000)]]])

(***************************************************************************)
(* dna_indexing                                                            *)
(***************************************************************************)
\* dna_indexing over every sample that has normalized coverages
dna_indexing_all_samples(accepted_samples, sample2family2normcov, min_thresh, med_thresh, max_thresh, index_file, fams) ==
    LET all == SortedSeq(DOMAIN sample2family2normcov)
        idx == [s \in Range(all) |->
                  [f \in Range(fams) |->
                      index_of(min_thresh, med_thresh, max_thresh,
                               sample2family2normcov[s][f])]]
    IN  [sample2family2dnaidx |-> idx,
         file |-> IF index_file /\ Len(all) > 0
                  THEN File([i \in 1..Len(all) |-> sample_name(all[i])],
                            [k \in 1..Len(fams) |->
                               [family |-> fams[k],
                                cells  |-> [i \in 1..Len(all) |-> idx[all[i]][fams[k]]]]])
                  ELSE NoFile]

dna_indexing(accepted_samples, sample2family2normcov, min_thresh, med_thresh, max_thresh, index_file, fams) ==
    LET accepted_ids == accepted_samples
        idx == [s \in Range(accepted_samples) |->
                  [f \in Range(fams) |->
                      index_of(min_thresh, med_thresh, max_thresh,
                               sample2family2normcov[s][f])]]
    IN  [sample2family2dnaidx |-> idx,
         file |-> IF index_file /\ Len(accepted_ids) > 0
                  THEN File([i \in 1..Len(accepted_ids) |-> sample_name(accepted_ids[i])],
                            [k \in 1..Len(fams) |->
                               [family |-> fams[k],
                                cells  |-> [i \in 1..Len(accepted_ids) |->
                                              idx[accepted_ids[i]][fams[k]]]]])
                  ELSE NoFile]

(***************************************************************************)
(* dna_presencing                                                          *)
(***************************************************************************)
presence_to_str(presence) == IF presence THEN 1 ELSE 0

\* dna_presencing over every file of files_list, a sample without DNA index
\* having every family absent
dna_presencing_every_file(accepted_samples, files_list, sample2family2dnaidx, out_channel, fams) ==
    LET fl  == files_list
        s2p == [s \in Range(fl) |->
                  [f \in Range(fams) |->
                      IF s \in DOMAIN sample2family2dnaidx
                      THEN presence_of(sample2family2dnaidx[s][f]) ELSE FALSE]]
        keep == {f \in Range(fams) : \E s \in Range(fl) : s2p[s][f]}
        rowf == SelectIn(fams, keep)
    IN  [sample2family2presence |-> s2p,
         file |-> IF out_channel /\ Len(fl) > 0
                  THEN File([i \in 1..Len(fl) |-> sample_name(fl[i])],
                            [k \in 1..Len(rowf) |->
                               [family |-> rowf[k],
                                cells  |-> [i \in 1..Len(fl) |->
                                              presence_to_str(s2p[fl[i]][rowf[k]])]]])
                  ELSE NoFile]

\* dna_presencing printing a row for every family of the universe
dna_presencing_all_rows(accepted_samples, files_list, sample2family2dnaidx, out_channel, fams) ==
    LET fl  == SelectIn(files_list, {s \in DOMAIN accepted_samples : accepted_samples[s]})
        s2p == [s \in Range(fl) |->
                  [f \in Range(fams) |-> presence_of(sample2family2dnaidx[s][f])]]
    IN  [sample2family2presence |-> s2p,
         file |-> IF out_channel /\ Len(fl) > 0
                  THEN File([i \in 1..Len(fl) |-> sample_name(fl[i])],
                            [k \in 1..Len(fams) |->
                               [family |-> fams[k],
                                cells  |-> [i \in 1..Len(fl) |->
                                              presence_to_str(s2p[fl[i]][fams[k]])]]])
                  ELSE NoFile]

dna_presencing(accepted_samples, files_list, sample2family2dnaidx, out_channel, fams) ==
    LET fl  == SelectIn(files_list, {s \in DOMAIN accepted_samples : accepted_samples[s]})
        s2p == [s \in Range(fl) |->
                  [f \in Range(fams) |-> presence_of(sample2family2dnaidx[s][f])]]
        keep == {f \in Range(fams) : \E s \in Range(fl) : s2p[s][f]}
        rowf == SelectIn(fams, keep)
    IN  [sample2family2presence |-> s2p,
         file |-> IF out_channel /\ Len(fl) > 0
                  THEN File([i \in 1..Len(fl) |-> sample_name(fl[i])],
                            [k \in 1..Len(rowf) |->
                               [family |-> rowf[k],
                                cells  |-> [i \in 1..Len(fl) |->
                                              presence_to_str(s2p[fl[i]][rowf[k]])]]])
                  ELSE NoFile]

(***************************************************************************)
(* Strains: build_strain2family2presence, get_samples_panfamilies,         *)
(* strains_filtering, samples_strains_presences                            *)
(***************************************************************************)
get_strains(g2f) == SortedSeq(DOMAIN g2f)

build_strain2family2presence(strains_list, fams, g2f) ==
    [s \in Range(strains_list) |-> [f \in Range(fams) |-> f \in g2f[s]]]

get_samples_panfamilies(fams, s2f2p) ==
    SelectIn(fams, {f \in Range(fams) : \E s \in DOMAIN s2f2p : s2f2p[s][f]})

\* the counting loop of strains_filtering, with its early exit
RECURSIVE numof_ss_families(_, _, _, _)
numof_ss_families(strain_families, samples_panfamilies, half, n) ==
    IF strain_families = <<>> THEN n
    ELSE IF Head(strain_families) \in Range(samples_panfamilies)
         THEN IF n + 1 >= half THEN n + 1
              ELSE numof_ss_families(Tail(strain_families), samples_panfamilies, half, n + 1)
         ELSE numof_ss_families(Tail(strain_families), samples_panfamilies, half, n)

\* half = int(strain_length * similarity / 100)
half_of(strain_length, similarity) ==
    IntOf(RDiv(RMul(Int2Rat(strain_length), similarity), Int2Rat(100)))

\* variant: half taken from the dissimilarity, 100 - similarity
strain_rejected_dissimilar(f2p, similarity, samples_panfamilies, fams) ==
    LET strain_families == SelectIn(fams, {f \in Range(fams) : f2p[f]})
        strain_length   == Len(strain_families)
        half            == half_of(strain_length,
                                   RAdd(Int2Rat(100), RMul(Int2Rat(-1), similarity)))
    IN  numof_ss_families(strain_families, samples_panfamilies, half, 0) < half

strain_rejected(f2p, similarity, samples_panfamilies, fams) ==
    LET strain_families == SelectIn(fams, {f \in Range(fams) : f2p[f]})
        strain_length   == Len(strain_families)
        half            == half_of(strain_length, similarity)
    IN  numof_ss_families(strain_families, samples_panfamilies, half, 0) < half

\* variant: a family of samples_panfamilies is never counted as never present
strains_filtering_all_zero(strains_list, s2f2p, similarity, samples_panfamilies, fams) ==
    LET rejected_strains == {s \in Range(strains_list) :
                                strain_rejected(s2f2p[s], similarity,
                                                samples_panfamilies, fams)}
        kept == [s \in DOMAIN s2f2p \ rejected_strains |-> s2f2p[s]]
    IN  [strain2family2presence |-> kept,
         rejected_strains       |-> rejected_strains,
         selected_strains       |-> SortedSeq(DOMAIN kept),
         never_present_families |->
             SelectIn(fams, {f \in Range(fams) :
                                /\ f \notin Range(samples_panfamilies)
                                /\ \A g \in DOMAIN kept : ~kept[g][f]})]

strains_filtering(strains_list, s2f2p, similarity, samples_panfamilies, fams) ==
    LET rejected_strains == {s \in Range(strains_list) :
                                strain_rejected(s2f2p[s], similarity,
                                                samples_panfamilies, fams)}
        kept == [s \in DOMAIN s2f2p \ rejected_strains |-> s2f2p[s]]
    IN  [strain2family2presence |-> kept,
         rejected_strains       |-> rejected_strains,
         selected_strains       |-> SortedSeq(DOMAIN kept),
         never_present_families |->
             SelectIn(fams, {f \in Range(fams) : \A g \in DOMAIN kept : ~kept[g][f]})]

samples_strains_presences(s2f2p, strains_list, strain2f2p, similarity, out_channel, fams, TO_BE_PRINTED) ==
    LET panfam  == get_samples_panfamilies(fams, s2f2p)
        sf      == strains_filtering(strains_list, strain2f2p, similarity, panfam, fams)
        samples == SortedSeq(DOMAIN s2f2p)
        cols    == [i \in 1..Len(samples) |-> sample_name(samples[i])]
                   \o [i \in 1..Len(sf.selected_strains) |->
                          strain_name(sf.selected_strains[i])]
        keys    == {sample_name(x) : x \in DOMAIN s2f2p}
                   \cup {strain_name(g) : g \in DOMAIN sf.strain2family2presence}
        merged  == [k \in keys |->
                      IF k[1] = "strain" THEN sf.strain2family2presence[k[2]]
                      ELSE s2f2p[k[2]]]
        rowf    == SelectIn(fams, Range(fams) \ Range(sf.never_present_families))
        print   == TO_BE_PRINTED /\ Len(cols) > 0
    IN  [samples_panfamilies    |-> panfam,
         strain2family2presence |-> sf.strain2family2presence,
         selected_strains       |-> sf.selected_strains,
         never_present_families |-> sf.never_present_families,
         ss_presence            |-> merged,
         raises                 |-> print /\ ~out_channel,
         print                  |-> print /\ out_channel,
         file |-> File(cols,
                       [k \in 1..Len(rowf) |->
                          [family |-> rowf[k],
                           cells  |-> [i \in 1..Len(cols) |->
                                         presence_to_str(merged[cols[i]][rowf[k]])]]])]

(***************************************************************************)
(* strains_gene_hit_percentage                                             *)
(***************************************************************************)
\* variant: the hits divided by the number of families of the pangenome
strains_gene_hit_percentage_of_pangenome(ss_presence, g2f, accepted_samples) ==
    LET strains_list == SortedSeq(DOMAIN g2f)
        samples_list == SortedSeq({s \in DOMAIN accepted_samples : accepted_samples[s]})
        numof_fams   == Cardinality(UNION {g2f[g] : g \in DOMAIN g2f})
        hit == [strain \in DOMAIN g2f |->
                  [sample \in Range(samples_list) |->
                      RMul(Rat(Cardinality({family \in g2f[strain] :
                                               ss_presence[sample_name(sample)][family]}),
                               numof_fams),
                           Int2Rat(100))]]
    IN  IF Len(samples_list) > 0
        THEN [strain2sample2hit |-> hit,
              file |-> File([i \in 1..Len(samples_list) |-> sample_name(samples_list[i])],
                            [k \in 1..Len(strains_list) |->
                               [family |-> strains_list[k],
                                number_of_genes |-> Cardinality(g2f[strains_list[k]]),
                                cells  |-> [i \in 1..Len(samples_list) |->
                                              FormatDec(hit[strains_list[k]][samples_list[i]],
                                                        10)]]])]
        ELSE [strain2sample2hit |-> <<>>, file |-> NoFile]

strains_gene_hit_percentage(ss_presence, g2f, accepted_samples) ==
    LET strains_list == SortedSeq(DOMAIN g2f)
        samples_list == SortedSeq({s \in DOMAIN accepted_samples : accepted_samples[s]})
        hit == [strain \in DOMAIN g2f |->
                  [sample \in Range(samples_list) |->
                      RMul(Rat(Cardinality({family \in g2f[strain] :
                                               ss_presence[sample_name(sample)][family]}),
                               Cardinality(g2f[strain])),
                           Int2Rat(100))]]
    IN  IF Len(samples_list) > 0
        THEN [strain2sample2hit |-> hit,
              file |-> File([i \in 1..Len(samples_list) |-> sample_name(samples_list[i])],
                            [k \in 1..Len(strains_list) |->
                               [family |-> strains_list[k],
                                number_of_genes |-> Cardinality(g2f[strains_list[k]]),
                                cells  |-> [i \in 1..Len(samples_list) |->
                                              FormatDec(hit[strains_list[k]][samples_list[i]],
                                                        10)]]])]
        ELSE [strain2sample2hit |-> <<>>, file |-> NoFile]

(***************************************************************************)
(* rna_seq.  A cell is a number (num), the result of a division by a zero  *)
(* numpy median (inf, nan), log2(v) / CONST_C + 1.0 kept symbolic (log),   *)
(* or one of the two tokens (np_symbol, nan_symbol).                       *)
(***************************************************************************)
\* the key of a DNA sample that has no RNA file
NO_RNA_FILE_KEY == <<"# NA #">>

Num(v) == [kind |-> "num", v |-> v]

Cell(kind) == [kind |-> kind, v |-> RZero]

IsToken(c) == c.kind \in {"np_symbol", "nan_symbol"}

\* variant: the RNA coverage itself where there is no DNA coverage
rna_div_dna_keep_rna(dna_cov, rna_cov) ==
    IF REq(dna_cov, RZero) THEN rna_cov ELSE RDiv(rna_cov, dna_cov)

rna_div_dna(dna_cov, rna_cov) ==
    IF REq(dna_cov, RZero) THEN RZero ELSE RDiv(rna_cov, dna_cov)

\* variant: the median of the ratios of all the families
plateau_median_of_all(ratio, plateau) ==
    IF plateau = <<>> THEN Cell("nan")
    ELSE Num(MedianOfSorted(SortedCovsDesc(ratio, SortedSeq(DOMAIN ratio))))

\* numpy.median of the ratios of the plateau families
plateau_median(ratio, plateau) ==
    IF plateau = <<>> THEN Cell("nan")
    ELSE Num(MedianOfSorted(SortedCovsDesc(ratio, plateau)))

\* ratio / median[dna_sample], a Python float over a numpy float
median_norm(ratio, median) ==
    IF median.kind = "nan" THEN Cell("nan")
    ELSE IF REq(median.v, RZero)
         THEN IF REq(ratio, RZero) THEN Cell("nan") ELSE Cell("inf")
    ELSE Num(RDiv(ratio, median.v))

\* variant: the logarithm taken of every number, 0.0 included
log_norm_of_zero(v) ==
    IF IsToken(v) THEN v
    ELSE IF v.kind = "num" THEN [kind |-> "log", v |-> v.v]
    ELSE v

log_norm(v) ==
    IF IsToken(v) THEN v
    ELSE IF v.kind = "num" /\ REq(v.v, RZero) THEN Num(RZero)
    ELSE IF v.kind = "num" THEN [kind |-> "log", v |-> v.v]
    ELSE v

rna_seq(out_channel, s2f2dnaidx, dna_s2f2cov, dna_accepted_samples, rna_s2f2cov, rna_max_zeroes, rna_file, fams) ==
    LET accepted == SortedSeq({s \in DOMAIN dna_accepted_samples : dna_accepted_samples[s]})
        rna_samples == SelectIn(accepted, {s \in Range(accepted) :
                                             rna_file[s] # NO_RNA_FILE_KEY})
        ratio(s) == [f \in Range(fams) |->
                        rna_div_dna(dna_s2f2cov[s][f], rna_s2f2cov[rna_file[s]][f])]
        plateau(s) == SelectIn(fams, {f \in Range(fams) : s2f2dnaidx[s][f] = 1})
        median(s) == plateau_median(ratio(s), plateau(s))
        norm(s) == LET r == ratio(s)
                       m == median(s)
                   IN  [f \in Range(fams) |->
                          IF s2f2dnaidx[s][f] = 1 THEN median_norm(r[f], m)
                          ELSE IF s2f2dnaidx[s][f] = -3 THEN Cell("np_symbol")
                          ELSE Cell("nan_symbol")]
        zeroes(s) == LET n == norm(s)
                     IN  <<Cardinality({f \in Range(plateau(s)) : n[f] = Num(RZero)}),
                           Len(plateau(s))>>
        raises == \E s \in Range(rna_samples) : plateau(s) = <<>>
        passes(s) == LET z == zeroes(s)
                     IN  /\ z[2] # 0
                         /\ RLe(RMul(Rat(z[1], z[2]), Int2Rat(100)), rna_max_zeroes)
        ok == {s \in Range(rna_samples) : passes(s)}
        rnaseq_accepted_samples == SelectIn(rna_samples, ok)
        logn(s) == LET n == norm(s) IN [f \in Range(fams) |-> log_norm(n[f])]
        rowf == SelectIn(fams, {f \in Range(fams) :
                                   \E s \in ok : ~IsToken(log_norm(norm(s)[f]))})
    IN  [rna_samples               |-> rna_samples,
         sample2family2rna_div_dna |-> [s \in Range(rna_samples) |-> ratio(s)],
         median                    |-> [s \in Range(rna_samples) |-> median(s)],
         sample2family2median_norm |-> [s \in Range(rna_samples) |-> norm(s)],
         sample2zeroes             |-> [s \in Range(rna_samples) |-> zeroes(s)],
         raises                    |-> raises,
         rnaseq_accepted_samples   |-> IF raises THEN <<>> ELSE rnaseq_accepted_samples,
         sample2family2log_norm    |-> IF raises THEN <<>> ELSE [s \in ok |-> logn(s)],
         file |-> IF raises \/ ~out_channel THEN NoFile
                  ELSE File([i \in 1..Len(rnaseq_accepted_samples) |->
                                sample_name(rnaseq_accepted_samples[i])],
                            [k \in 1..Len(rowf) |->
                               [family |-> rowf[k],
                                cells  |-> [i \in 1..Len(rnaseq_accepted_samples) |->
                                              logn(rnaseq_accepted_samples[i])[rowf[k]]]]])]

(***************************************************************************)
(* State                                                                   *)
(***************************************************************************)
VARIABLES
    pc,                      \* the step of main() to run next
    args,                    \* the checked arguments
    families,                \* sorted list of the pangenome's gene families
    genome2families,
    avg_genome_length,
    dna_files_list,          \* sorted list of the DNA coverage files
    dna_samples_covs,        \* file -> family -> coverage
    rna_file,                \* DNA file -> its RNA file (rna_id2file[dna2rna[dna_file2id[.]]])
    rna_samples_covs,        \* RNA file -> family -> coverage
    strains_list,
    strain2family2presence,
    sample2accepted,
    accepted_samples,
    norm_dna_samples_covs,
    median_normalized_covs,
    sample2median,
    sample2family2dnaidx,
    dna_sample2family2presence,
    ssp,                     \* what samples_strains_presences computed
    ss_presence,
    strain2sample2hit,
    rna,                     \* what rna_seq computed
    o_cov, o_idx, o_dna, o_hit, o_rna,   \* the output files
    call, ret                \* a single function call and its result

inputVars == <<args, families, genome2families, avg_genome_length, dna_files_list,
               dna_samples_covs, rna_file, rna_samples_covs, strains_list>>

filterVars == <<sample2accepted, accepted_samples, norm_dna_samples_covs,
                median_normalized_covs, sample2median>>

strainVars == <<strain2family2presence, ssp, ss_presence, strain2sample2hit>>

fileVars == <<o_cov, o_idx, o_dna, o_hit, o_rna>>

unitVars == <<call, ret>>

vars == <<pc, inputVars, filterVars, sample2family2dnaidx, dna_sample2family2presence,
          strainVars, rna, fileVars, unitVars>>

(***************************************************************************)
(* main(): the state after STEP 4 (files read, build_mappings,             *)
(* strain presence, families_coverages of every DNA and RNA file)          *)
(***************************************************************************)
\* the arguments as check_args returns them with no option given, every
\* output file asked for
DefaultArgs ==
    [th_zero |-> Rat(1, 4), th_present |-> Rat(1, 2), th_multicopy |-> Rat(3, 2),
     min_coverage |-> Int2Rat(2), left_max |-> Rat(5, 4), right_min |-> Rat(3, 4),
     rna_max_zeros |-> Int2Rat(10), strain_similarity_perc |-> Int2Rat(50),
     add_strains |-> TRUE, strain_hit_genes_perc |-> TRUE,
     o_dna |-> TRUE, o_cov |-> TRUE, o_idx |-> TRUE, o_rna |-> TRUE,
     sample_pairs |-> TRUE]

\* a pangenome file with one gene of length 1 for every family of every
\* genome, the genes of a genome in the order of their families
layout_rows(layout) ==
    LET pairs == {p \in (DOMAIN layout) \X (UNION {layout[g] : g \in DOMAIN layout}) :
                     p[2] \in layout[p[1]]}
        key(p) == 100 * p[1] + p[2]
        rank(p) == Cardinality({q \in pairs : key(q) <= key(p)})
    IN  [i \in 1..Cardinality(pairs) |->
            LET p == CHOOSE p \in pairs : rank(p) = i
            IN  [fml |-> p[2], gene |-> key(p), genome |-> p[1], fr |-> 1, to |-> 1]]

\* a pangenome file with one reference genome of n families
single_genome_rows(n) ==
    [f \in 1..n |-> [fml |-> f, gene |-> 100 + f, genome |-> 1, fr |-> 1, to |-> 1]]

InitMain(m, covs, a, rf, rcovs) ==
    /\ pc = "print_coverage_matrix"
    /\ args = a
    /\ families = m.families
    /\ genome2families = m.genome2families
    /\ avg_genome_length = m.avg_genome_length
    /\ dna_files_list = SortedSeq(DOMAIN covs)
    /\ dna_samples_covs = covs
    /\ rna_file = rf
    /\ rna_samples_covs = rcovs
    /\ strains_list = IF a.add_strains \/ a.strain_hit_genes_perc
                      THEN get_strains(m.genome2families) ELSE <<>>
    /\ strain2family2presence =
          IF a.add_strains \/ a.strain_hit_genes_perc
          THEN build_strain2family2presence(get_strains(m.genome2families),
                                            m.families, m.genome2families)
          ELSE <<>>
    /\ sample2accepted = <<>>
    /\ accepted_samples = <<>>
    /\ norm_dna_samples_covs = <<>>
    /\ median_normalized_covs = <<>>
    /\ sample2median = <<>>
    /\ sample2family2dnaidx = <<>>
    /\ dna_sample2family2presence = <<>>
    /\ ssp = <<>>
    /\ ss_presence = <<>>
    /\ strain2sample2hit = <<>>
    /\ rna = <<>>
    /\ o_cov = NoFile /\ o_idx = NoFile /\ o_dna = NoFile
    /\ o_hit = NoFile /\ o_rna = NoFile
    /\ call = <<>> /\ ret = <<>>

PrintCoverageMatrix ==
    /\ pc = "print_coverage_matrix"
    /\ o_cov' = print_coverage_matrix(dna_files_list, dna_samples_covs, args.o_cov, families)
    /\ pc' = "dna_sample_filtering"
    /\ UNCHANGED <<inputVars, filterVars, sample2family2dnaidx,
                   dna_sample2family2presence, strainVars, rna,
                   o_idx, o_dna, o_hit, o_rna, unitVars>>

DnaSampleFiltering ==
    /\ pc = "dna_sample_filtering"
    /\ LET r == dna_sample_filtering(dna_samples_covs, avg_genome_length,
                                     args.min_coverage, args.left_max,
                                     args.right_min, families)
       IN  /\ sample2accepted' = r.sample2accepted
           /\ accepted_samples' = r.accepted_samples_list
           /\ norm_dna_samples_covs' = r.norm_samples_coverages
           /\ median_normalized_covs' = r.median_normalized_covs
           /\ sample2median' = r.median
           /\ pc' = IF r.raises THEN "error" ELSE "dna_indexing"
    /\ UNCHANGED <<inputVars, sample2family2dnaidx, dna_sample2family2presence,
                   strainVars, rna, fileVars, unitVars>>

DnaIndexing ==
    /\ pc = "dna_indexing"
    /\ LET r == dna_indexing(accepted_samples, norm_dna_samples_covs, args.th_zero,
                             args.th_present, args.th_multicopy, args.o_idx, families)
       IN  /\ sample2family2dnaidx' = r.sample2family2dnaidx
           /\ o_idx' = r.file
    /\ pc' = "dna_presencing"
    /\ UNCHANGED <<inputVars, filterVars, dna_sample2family2presence, strainVars,
                   rna, o_cov, o_dna, o_hit, o_rna, unitVars>>

DnaPresencing ==
    /\ pc = "dna_presencing"
    /\ LET r == dna_presencing(sample2accepted, dna_files_list, sample2family2dnaidx,
                               args.o_dna, families)
       IN  /\ dna_sample2family2presence' = r.sample2family2presence
           /\ o_dna' = r.file
    /\ pc' = IF args.add_strains \/ args.strain_hit_genes_perc
             THEN "samples_strains_presences"
             ELSE IF args.sample_pairs THEN "rna_seq" ELSE "done"
    /\ UNCHANGED <<inputVars, filterVars, sample2family2dnaidx, strainVars,
                   rna, o_cov, o_idx, o_hit, o_rna, unitVars>>

SamplesStrainsPresences ==
    /\ pc = "samples_strains_presences"
    /\ LET r == samples_strains_presences(dna_sample2family2presence, strains_list,
                     strain2family2presence, args.strain_similarity_perc,
                     args.o_dna, families, args.add_strains)
       IN  /\ ssp' = [samples_panfamilies    |-> r.samples_panfamilies,
                      selected_strains       |-> r.selected_strains,
                      never_present_families |-> r.never_present_families]
           /\ strain2family2presence' = r.strain2family2presence
           /\ ss_presence' = IF r.raises THEN ss_presence ELSE r.ss_presence
           /\ o_dna' = IF r.print THEN r.file ELSE o_dna
           /\ pc' = IF r.raises THEN "error"
                    ELSE IF args.strain_hit_genes_perc THEN "strains_gene_hit_percentage"
                    ELSE IF args.sample_pairs THEN "rna_seq" ELSE "done"
    /\ UNCHANGED <<inputVars, filterVars, sample2family2dnaidx,
                   dna_sample2family2presence, strain2sample2hit, rna,
                   o_cov, o_idx, o_hit, o_rna, unitVars>>

StrainsGeneHitPercentage ==
    /\ pc = "strains_gene_hit_percentage"
    /\ LET r == strains_gene_hit_percentage(ss_presence, genome2families, sample2accepted)
       IN  /\ strain2sample2hit' = r.strain2sample2hit
           /\ o_hit' = r.file
    /\ pc' = IF args.sample_pairs THEN "rna_seq" ELSE "done"
    /\ UNCHANGED <<inputVars, filterVars, sample2family2dnaidx,
                   dna_sample2family2presence, strain2family2presence, ssp,
                   ss_presence, rna, o_cov, o_idx, o_dna, o_rna, unitVars>>

RnaSeq ==
    /\ pc = "rna_seq"
    /\ rna' = rna_seq(args.o_rna, sample2family2dnaidx, dna_samples_covs,
                      sample2accepted, rna_samples_covs, args.rna_max_zeros,
                      rna_file, families)
    /\ o_rna' = rna'.file
    /\ pc' = IF rna'.raises THEN "error" ELSE "done"
    /\ UNCHANGED <<inputVars, filterVars, sample2family2dnaidx,
                   dna_sample2family2presence, strainVars,
                   o_cov, o_idx, o_dna, o_hit, unitVars>>

(***************************************************************************)
(* Inputs of the pipeline specifications                                   *)
(***************************************************************************)
FamilyIds == 1..3

\* the RNA file paired with a DNA file
RnaFileOf(s) == <<"rna", s>>

\* two reference genomes: genome 1 holds the families 1..a, genome 2 the
\* families b..3, every family in one of them
RangeLayouts ==
    {[g \in {1, 2} |-> IF g = 1 THEN {f \in FamilyIds : f <= x[1]}
                       ELSE {f \in FamilyIds : f >= x[2]}] :
        x \in {y \in FamilyIds \X FamilyIds : y[2] <= y[1] + 1}}

\* two reference genomes, each with any non-empty set of families
AllLayouts == [{1, 2} -> (SUBSET FamilyIds) \ {{}}]

\* th_present = 0.25 given on the command line, th_zero and th_multicopy
\* derived from it; no strain columns
LowThresholdArgs ==
    [DefaultArgs EXCEPT !.th_zero = Rat(1, 8), !.th_present = Rat(1, 4),
                        !.th_multicopy = Rat(3, 4), !.add_strains = FALSE]

\* a filter that lets uneven samples through
WideFilterArgs ==
    [DefaultArgs EXCEPT !.min_coverage = Int2Rat(0), !.left_max = Int2Rat(2),
                        !.right_min = Rat(1, 2)]

DnaOnly(a) ==
    [a EXCEPT !.add_strains = FALSE, !.strain_hit_genes_perc = FALSE,
              !.sample_pairs = FALSE]

(***************************************************************************)
(* Spec: the whole of main(), two DNA samples with or without an RNA file  *)
(***************************************************************************)
CovHigh == 3

\* the family coverages of a DNA file: CovHigh for the first k families, 0
\* for the others
StepCovs(fams) ==
    {[f \in Range(fams) |-> IF f <= k THEN Int2Rat(CovHigh) ELSE Int2Rat(0)] :
        k \in 0..Len(fams)}

\* the family coverages of an RNA file: the same for every family
RnaCovs(fams) == {[f \in Range(fams) |-> Int2Rat(v)] : v \in {0, 1}}

Init ==
    \E layout \in RangeLayouts, a \in {DefaultArgs, LowThresholdArgs} :
        LET m == build_mappings(layout_rows(layout))
        IN  \E covs \in [{1, 2} -> StepCovs(m.families)],
               paired \in SUBSET {1, 2} :
               \E rcovs \in [{RnaFileOf(s) : s \in paired} -> RnaCovs(m.families)] :
                   InitMain(m, covs, a,
                            [s \in {1, 2} |-> IF s \in paired THEN RnaFileOf(s)
                                              ELSE NO_RNA_FILE_KEY],
                            rcovs)

NextDna ==
    \/ PrintCoverageMatrix
    \/ DnaSampleFiltering
    \/ DnaIndexing
    \/ DnaPresencing

NextStrains ==
    \/ NextDna
    \/ SamplesStrainsPresences
    \/ StrainsGeneHitPercentage

Next ==
    \/ NextStrains
    \/ RnaSeq

Spec == Init /\ [][Next]_vars

(***************************************************************************)
(* SpecDna: STEP 4 to STEP 6b for one DNA sample                           *)
(***************************************************************************)
MaxCov == 3

\* family coverages: 0..MaxCov and the coverages 9 and 10
DnaCovVals == {Int2Rat(c) : c \in (0..MaxCov) \cup {9, 10}}

InitDna ==
    \E layout \in RangeLayouts,
       a \in {DnaOnly(DefaultArgs), DnaOnly(LowThresholdArgs), DnaOnly(WideFilterArgs)} :
        LET m == build_mappings(layout_rows(layout))
        IN  \E covs \in [{1} -> [Range(m.families) -> DnaCovVals]] :
               InitMain(m, covs, a, [s \in {1} |-> NO_RNA_FILE_KEY], <<>>)

SpecDna == InitDna /\ [][NextDna]_vars

(***************************************************************************)
(* SpecStrains: STEP 4 to STEP 6c for two DNA samples and every pair of    *)
(* reference genomes                                                       *)
(***************************************************************************)
\* --strain_similarity_perc
Similarities == {Int2Rat(0), Int2Rat(50), Int2Rat(100)}

InitStrains ==
    \E layout \in AllLayouts, sim \in Similarities :
        LET m == build_mappings(layout_rows(layout))
        IN  \E covs \in [{1, 2} -> [Range(m.families) -> {Int2Rat(0), Int2Rat(CovHigh)}]] :
               InitMain(m, covs,
                        [DefaultArgs EXCEPT !.strain_similarity_perc = sim,
                                            !.sample_pairs = FALSE],
                        [s \in {1, 2} |-> NO_RNA_FILE_KEY], <<>>)

SpecStrains == InitStrains /\ [][NextStrains]_vars

(***************************************************************************)
(* SpecIndex: one call of index_of                                         *)
(***************************************************************************)
\* main() has not run
IdleMain ==
    /\ args = <<>> /\ families = <<>> /\ genome2families = <<>>
    /\ avg_genome_length = 0 /\ dna_files_list = <<>> /\ dna_samples_covs = <<>>
    /\ rna_file = <<>> /\ rna_samples_covs = <<>> /\ strains_list = <<>>
    /\ strain2family2presence = <<>> /\ sample2accepted = <<>>
    /\ accepted_samples = <<>> /\ norm_dna_samples_covs = <<>>
    /\ median_normalized_covs = <<>> /\ sample2median = <<>>
    /\ sample2family2dnaidx = <<>> /\ dna_sample2family2presence = <<>>
    /\ ssp = <<>> /\ ss_presence = <<>> /\ strain2sample2hit = <<>> /\ rna = <<>>
    /\ o_cov = NoFile /\ o_idx = NoFile /\ o_dna = NoFile
    /\ o_hit = NoFile /\ o_rna = NoFile

mainVars == <<inputVars, filterVars, sample2family2dnaidx, dna_sample2family2presence,
              strainVars, rna, fileVars>>

\* thresholds are quarters up to MaxQuarter / 4
MaxQuarter == 6

\* normalized coverages are hundredths up to MaxHundredth / 100
MaxHundredth == 160

InitIndex ==
    /\ pc = "index_of"
    /\ \E z \in 1..MaxQuarter, p \in 1..MaxQuarter, m \in 1..MaxQuarter,
          x \in 0..MaxHundredth :
          /\ z < p /\ p < m
          /\ call = [min_thresh |-> Rat(z, 4), med_thresh |-> Rat(p, 4),
                     max_thresh |-> Rat(m, 4), normalized_coverage |-> Rat(x, 100)]
    /\ ret = 0
    /\ IdleMain

IndexOf ==
    /\ pc = "index_of"
    /\ ret' = index_of(call.min_thresh, call.med_thresh, call.max_thresh,
                       call.normalized_coverage)
    /\ pc' = "return"
    /\ UNCHANGED <<mainVars, call>>

SpecIndex == InitIndex /\ [][IndexOf]_vars

\* index_of was called with the thresholds z, p, m (in quarters) and the
\* normalized coverage x (in hundredths)
IndexCall(z, p, m, x) ==
    /\ pc = "return"
    /\ call.min_thresh = Rat(z, 4) /\ call.med_thresh = Rat(p, 4)
    /\ call.max_thresh = Rat(m, 4) /\ call.normalized_coverage = Rat(x, 100)

\* C1: for thresholds z < p < m and a normalized coverage x >= 0, index_of
\* returns one of 1, -1, -2, -3: ABSENT when x < z, AMBIGUOUS when
\* z <= x <= p, PRESENT when p < x <= m, MULTICOPY when x > m.
C1_IndexOfCases ==
    pc = "return" =>
        LET z == call.min_thresh
            p == call.med_thresh
            m == call.max_thresh
            x == call.normalized_coverage
        IN  /\ ret \in {1, -1, -2, -3}
            /\ RLt(x, z) => ret = ABSENT
            /\ (RLe(z, x) /\ RLe(x, p)) => ret = AMBIGUOUS
            /\ (RLt(p, x) /\ RLe(x, m)) => ret = PRESENT
            /\ RLt(m, x) => ret = MULTICOPY

\* a coverage strictly between present_th and multicopy_th was classified
C1_PresentReached ==
    /\ pc = "return"
    /\ RLt(call.med_thresh, call.normalized_coverage)
    /\ RLt(call.normalized_coverage, call.max_thresh)
    /\ ret = PRESENT

\* C2 (as the code has it): a normalized coverage equal to zero_th is
\* AMBIGUOUS, equal to present_th is AMBIGUOUS, equal to multicopy_th is
\* PRESENT, above multicopy_th is MULTICOPY; with the thresholds
\* (0.25, 0.5, 1.5): 0.24 -> -3, 0.25 -> -2, 0.5 -> -2, 1.5 -> 1, 1.51 -> -1.
C2_Boundaries ==
    pc = "return" =>
        LET z == call.min_thresh
            p == call.med_thresh
            m == call.max_thresh
            x == call.normalized_coverage
        IN  /\ x = z => ret = AMBIGUOUS
            /\ x = p => ret = AMBIGUOUS
            /\ x = m => ret = PRESENT
            /\ RLt(m, x) => ret = MULTICOPY
            /\ IndexCall(1, 2, 6, 24) => ret = -3
            /\ IndexCall(1, 2, 6, 25) => ret = -2
            /\ IndexCall(1, 2, 6, 50) => ret = -2
            /\ IndexCall(1, 2, 6, 150) => ret = 1
            /\ IndexCall(1, 2, 6, 151) => ret = -1

\* index_of(0.25, 0.5, 1.5, 0.5) has returned AMBIGUOUS
C2_PresentThresholdAmbiguous == IndexCall(1, 2, 6, 50) /\ ret = AMBIGUOUS

\* C2 as stated: a normalized coverage equal to present_th is PRESENT, and
\* 0.5 -> 1 with the thresholds (0.25, 0.5, 1.5)
C2_AsStated ==
    pc = "return" =>
        LET z == call.min_thresh
            p == call.med_thresh
            m == call.max_thresh
            x == call.normalized_coverage
        IN  /\ x = z => ret = AMBIGUOUS
            /\ x = p => ret = PRESENT
            /\ x = m => ret = PRESENT
            /\ RLt(m, x) => ret = MULTICOPY
            /\ IndexCall(1, 2, 6, 24) => ret = -3
            /\ IndexCall(1, 2, 6, 25) => ret = -2
            /\ IndexCall(1, 2, 6, 50) => ret = 1
            /\ IndexCall(1, 2, 6, 150) => ret = 1
            /\ IndexCall(1, 2, 6, 151) => ret = -1

(***************************************************************************)
(* SpecCov: build_mappings of a pangenome file, then families_coverages of *)
(* one sample's gene coverages (STEP 1 and STEP 4 of main)                 *)
(***************************************************************************)
\* the pangenome file has at most MaxGenes rows, one per gene
MaxGenes == 3

\* a row of the pangenome file for the gene i
GeneRows(i) ==
    {[fml |-> f, gene |-> i, genome |-> 1, fr |-> c[1], to |-> c[2]] :
        f \in {1, 2}, c \in {<<1, 100>>, <<200, 1>>}}

\* the raw coverage of a gene in the sample's file
GeneCovs == {10, 20}

InitCov ==
    /\ pc = "build_mappings"
    /\ \E n \in 1..MaxGenes :
          \E rows \in [1..n -> UNION {GeneRows(i) : i \in 1..n}],
             seen \in SUBSET (1..n) :
             /\ \A i \in 1..n : rows[i].gene = i
             /\ \E gene2cov \in [seen -> GeneCovs] :
                   call = [pangenome_file |-> rows, gene2cov |-> gene2cov]
    /\ ret = 0
    /\ IdleMain

BuildMappings ==
    /\ pc = "build_mappings"
    /\ ret' = build_mappings(call.pangenome_file)
    /\ pc' = "families_coverages"
    /\ UNCHANGED <<mainVars, call>>

FamiliesCoverages ==
    /\ pc = "families_coverages"
    /\ ret' = [mappings   |-> ret,
               family2cov |-> families_coverages(call.gene2cov, ret.gene2family,
                                                 ret.gene_lengths)]
    /\ pc' = "return"
    /\ UNCHANGED <<mainVars, call>>

NextCov == BuildMappings \/ FamiliesCoverages

SpecCov == InitCov /\ [][NextCov]_vars

\* the sum of v[i] over the i of S
RECURSIVE SumOver(_, _)
SumOver(S, v) ==
    IF S = {} THEN 0
    ELSE LET i == CHOOSE i \in S : TRUE IN v[i] + SumOver(S \ {i}, v)

\* the rows of the pangenome file that belong to the family f
MemberRows(f) == {i \in DOMAIN call.pangenome_file : call.pangenome_file[i].fml = f}

RowLength(i) == Abs(call.pangenome_file[i].to - call.pangenome_file[i].fr) + 1

RowCov(i) ==
    IF call.pangenome_file[i].gene \in DOMAIN call.gene2cov
    THEN call.gene2cov[call.pangenome_file[i].gene] ELSE 0

\* C4: families_coverages has an entry for every family of the pangenome,
\* equal to (the sum of the raw coverages of the family's genes, a gene
\* missing from the sample's coverages counting 0) divided by (the sum of
\* the genes' lengths / the number of genes); a family none of whose genes
\* was observed gets 0.0; genes of lengths 100 and 200 with coverages 10 and
\* 20 give 0.2.
C4_FamilyCoverage ==
    pc = "return" =>
        LET universe == {call.pangenome_file[i].fml : i \in DOMAIN call.pangenome_file}
        IN  /\ DOMAIN ret.family2cov = universe
            /\ \A f \in universe :
                  LET members == MemberRows(f)
                      covs    == SumOver(members, [i \in members |-> RowCov(i)])
                      lens    == SumOver(members, [i \in members |-> RowLength(i)])
                  IN  /\ ret.family2cov[f] =
                            RDiv(Int2Rat(covs), Rat(lens, Cardinality(members)))
                      /\ (\A i \in members : RowCov(i) = 0) => ret.family2cov[f] = RZero
                      /\ (\E i, j \in members :
                             /\ members = {i, j}
                             /\ RowLength(i) = 100 /\ RowLength(j) = 200
                             /\ RowCov(i) = 10 /\ RowCov(j) = 20)
                         => ret.family2cov[f] = Rat(2, 10)

\* a family with a gene of length 100 and coverage 10 and a gene of length
\* 200 and coverage 20 got the coverage 0.2
C4_ExampleReached ==
    /\ pc = "return"
    /\ \E f \in DOMAIN ret.family2cov :
          /\ \E i, j \in MemberRows(f) :
                /\ MemberRows(f) = {i, j}
                /\ RowLength(i) = 100 /\ RowLength(j) = 200
                /\ RowCov(i) = 10 /\ RowCov(j) = 20
          /\ ret.family2cov[f] = Rat(1, 5)

(***************************************************************************)
(* Properties of STEP 5 to STEP 6b                                         *)
(***************************************************************************)
\* dna_sample_filtering has returned
Filtered ==
    pc \in {"dna_indexing", "dna_presencing", "samples_strains_presences",
            "strains_gene_hit_percentage", "rna_seq", "done"}

\* dna_indexing has returned
Indexed ==
    pc \in {"dna_presencing", "samples_strains_presences",
            "strains_gene_hit_percentage", "rna_seq", "done"}

\* dna_presencing has returned
Presenced ==
    pc \in {"samples_strains_presences", "strains_gene_hit_percentage",
            "rna_seq", "done"}

\* C3: for every accepted sample and every family the presence flag built by
\* dna_presencing equals (DNA index >= -1): true exactly for PRESENT and
\* MULTICOPY, false exactly for AMBIGUOUS and ABSENT.
C3_PresenceIsIndexAtLeastMinusOne ==
    Presenced =>
        \A s \in DOMAIN sample2accepted :
            sample2accepted[s] =>
                \A f \in Range(families) :
                    LET idx      == sample2family2dnaidx[s][f]
                        presence == dna_sample2family2presence[s][f]
                    IN  /\ presence = (idx >= -1)
                        /\ presence <=> idx \in {PRESENT, MULTICOPY}
                        /\ ~presence <=> idx \in {AMBIGUOUS, ABSENT}

\* an accepted sample has a MULTICOPY family flagged present and an
\* AMBIGUOUS family flagged absent
C3_MulticopyAndAmbiguousReached ==
    /\ Presenced
    /\ \E s \in DOMAIN sample2accepted :
          /\ sample2accepted[s]
          /\ \E f, g \in Range(families) :
                /\ sample2family2dnaidx[s][f] = MULTICOPY
                /\ dna_sample2family2presence[s][f]
                /\ sample2family2dnaidx[s][g] = AMBIGUOUS
                /\ ~dna_sample2family2presence[s][g]

\* C6: in the plateau filter the median-normalized coverage of every family
\* of a sample is its family coverage divided by the sample's plateau median,
\* and 0.0 for every family when that median is 0; the normalization never
\* fails with a division by zero.
C6_MedianNormalization ==
    pc = "dna_indexing" =>
        /\ DOMAIN norm_dna_samples_covs = DOMAIN dna_samples_covs
        /\ \A s \in DOMAIN dna_samples_covs :
              /\ DOMAIN norm_dna_samples_covs[s] = Range(families)
              /\ \A f \in Range(families) :
                    IF sample2median[s] = RZero
                    THEN norm_dna_samples_covs[s][f] = RZero
                    ELSE RMul(norm_dna_samples_covs[s][f], sample2median[s])
                            = dna_samples_covs[s][f]
              /\ Len(median_normalized_covs[s]) = Len(families)
              /\ \A i \in 1..Len(families) :
                    IF sample2median[s] = RZero
                    THEN median_normalized_covs[s][i] = RZero
                    ELSE RMul(median_normalized_covs[s][i], sample2median[s])
                            = SortedCovsDesc(dna_samples_covs[s], families)[i]

\* a sample with plateau median 0 and a covered family was normalized
C6_ZeroMedianReached ==
    /\ pc = "dna_indexing"
    /\ \E s \in DOMAIN dna_samples_covs :
          /\ sample2median[s] = RZero
          /\ \E f \in Range(families) :
                /\ RLt(RZero, dna_samples_covs[s][f])
                /\ norm_dna_samples_covs[s][f] = RZero

\* one sample, three families with the coverages 10, 9 and 1,
\* avg_genome_length = 2 and the default thresholds
C7_Scenario ==
    /\ dna_files_list = <<1>>
    /\ families = <<1, 2, 3>>
    /\ avg_genome_length = 2
    /\ dna_samples_covs[1] = (1 :> Int2Rat(10)) @@ (2 :> Int2Rat(9)) @@ (3 :> Int2Rat(1))
    /\ args.th_zero = Rat(1, 4) /\ args.th_present = Rat(1, 2)
    /\ args.th_multicopy = Rat(3, 2) /\ args.min_coverage = Int2Rat(2)
    /\ args.left_max = Rat(5, 4) /\ args.right_min = Rat(3, 4)

\* C7: for a single sample with three families, avg_genome_length = 2, the
\* family coverages A = 10, B = 9, C = 1 and the default thresholds (0.25,
\* 0.5, 1.5, min_coverage 2.0, left_max 1.25, right_min 0.75) the plateau
\* median is 9.5, the sample is accepted, the DNA indices are PRESENT,
\* PRESENT, ABSENT and the presence flags 1, 1, 0.
C7_EndToEnd ==
    C7_Scenario =>
        /\ pc # "error"
        /\ Filtered => /\ sample2median[1] = Rat(19, 2)
                       /\ sample2accepted[1]
                       /\ accepted_samples = <<1>>
        /\ Indexed => /\ sample2family2dnaidx[1][1] = PRESENT
                      /\ sample2family2dnaidx[1][2] = PRESENT
                      /\ sample2family2dnaidx[1][3] = ABSENT
        /\ Presenced =>
              /\ dna_sample2family2presence[1] = (1 :> TRUE) @@ (2 :> TRUE) @@ (3 :> FALSE)
              /\ o_dna.cols = <<sample_name(1)>>
              /\ o_dna.rows = <<[family |-> 1, cells |-> <<1>>],
                                [family |-> 2, cells |-> <<1>>]>>

\* the scenario has run to the end of dna_presencing
C7_ScenarioDone ==
    /\ C7_Scenario
    /\ pc = "done"
    /\ sample2accepted[1]
    /\ dna_sample2family2presence[1][1]

(***************************************************************************)
(* SpecPlateau: STEP 4 to STEP 6b for one DNA sample and one reference     *)
(* genome of 10, 20, ... families                                          *)
(***************************************************************************)
\* the reference genome has up to 10 * MaxTens families
MaxTens == 9

\* the coverage of the families above the step, and below it
PlateauHigh == 4

PlateauLow == 2

InitPlateau ==
    \E t \in 1..MaxTens :
        LET m == build_mappings(single_genome_rows(10 * t))
        IN  \E k \in 0..(10 * t) :
               InitMain(m,
                        [s \in {1} |->
                            [f \in Range(m.families) |->
                                IF f <= k THEN Int2Rat(PlateauHigh)
                                ELSE Int2Rat(PlateauLow)]],
                        DnaOnly(DefaultArgs), [s \in {1} |-> NO_RNA_FILE_KEY], <<>>)

SpecPlateau == InitPlateau /\ [][NextDna]_vars

\* C5 as stated: dna_sample_filtering accepts a sample if and only if the
\* median of its top avg_genome_length family coverages (sorted descending)
\* is >= min_coverage, the normalized value at rank
\* floor(0.30 * avg_genome_length) of the descending normalized vector is
\* <= left_max and the one at rank floor(0.70 * avg_genome_length) is
\* >= right_min.
C5_AcceptedIffThreeConditions ==
    Filtered =>
        \A s \in DOMAIN dna_samples_covs :
            LET sorted == SortedCovsDesc(dna_samples_covs[s], families)
                top    == SubSeq(sorted, 1, Min(avg_genome_length, Len(sorted)))
                median == MedianOfSorted(top)
                normed == [i \in 1..Len(sorted) |->
                              IF median = RZero THEN RZero ELSE RDiv(sorted[i], median)]
                left   == normed[(3 * avg_genome_length) \div 10 + 1]
                right  == normed[(7 * avg_genome_length) \div 10 + 1]
            IN  sample2accepted[s] <=>
                    /\ RLe(args.min_coverage, median)
                    /\ RLe(left, args.left_max)
                    /\ RLe(args.right_min, right)

(***************************************************************************)
(* Properties of the samples the plateau filter rejects                    *)
(***************************************************************************)
RejectedSamples == {s \in DOMAIN sample2accepted : ~sample2accepted[s]}

AcceptedSamples == {s \in DOMAIN sample2accepted : sample2accepted[s]}

\* C8: a sample rejected by the plateau filter never appears as a column of
\* the presence/absence matrix, of the merged sample+strain matrix, of the
\* strain gene-hit percentage report or of the RNA/DNA expression matrix, and
\* never contributes to the samples_panfamilies used for strain filtering.
C8_RejectedSampleExcluded ==
    \A s \in RejectedSamples :
        /\ sample_name(s) \notin Range(o_dna.cols)
        /\ s \notin DOMAIN dna_sample2family2presence
        /\ sample_name(s) \notin DOMAIN ss_presence
        /\ sample_name(s) \notin Range(o_hit.cols)
        /\ \A g \in DOMAIN strain2sample2hit : s \notin DOMAIN strain2sample2hit[g]
        /\ sample_name(s) \notin Range(o_rna.cols)
        /\ DOMAIN rna # {} => s \notin Range(rna.rna_samples)
        /\ DOMAIN ssp # {} =>
              Range(ssp.samples_panfamilies) =
                  {f \in Range(families) :
                      \E a \in AcceptedSamples : sample2family2dnaidx[a][f] >= -1}

\* main() has ended with a rejected sample that has an RNA file and a covered
\* family, and with the presence matrix merged with the strains, the gene-hit
\* report and the expression matrix written for the accepted sample
C8_AllOutputsWritten ==
    /\ pc = "done"
    /\ args.add_strains
    /\ \E s \in RejectedSamples :
          /\ rna_file[s] # NO_RNA_FILE_KEY
          /\ \E f \in Range(families) : RLt(RZero, dna_samples_covs[s][f])
    /\ AcceptedSamples # {}
    /\ o_dna.written /\ Len(o_dna.cols) > 1
    /\ o_hit.written /\ Len(o_hit.cols) > 0
    /\ o_rna.written /\ Len(o_rna.cols) > 0

\* C9 (as the code has it): a sample rejected by the plateau filter is a
\* column of the gene-family coverage matrix, but it is no column of the
\* 4-level DNA index matrix and has no entry in the DNA index map returned by
\* dna_indexing.
C9_RejectedSampleKeptInCoverageOnly ==
    Indexed =>
        \A s \in RejectedSamples :
            /\ o_cov.written
            /\ sample_name(s) \in Range(o_cov.cols)
            /\ sample_name(s) \notin Range(o_idx.cols)
            /\ s \notin DOMAIN sample2family2dnaidx

\* dna_indexing has written the index matrix of a run with a rejected sample
C9_IndexWrittenWithRejectedSample ==
    /\ Indexed
    /\ RejectedSamples # {}
    /\ o_cov.written
    /\ o_idx.written /\ Len(o_idx.cols) > 0

\* C9 as stated: a rejected sample is a column of the coverage matrix and of
\* the DNA index matrix, and has an entry in the DNA index map.
C9_AsStated ==
    (Indexed /\ o_idx.written) =>
        \A s \in RejectedSamples :
            /\ sample_name(s) \in Range(o_cov.cols)
            /\ sample_name(s) \in Range(o_idx.cols)
            /\ s \in DOMAIN sample2family2dnaidx

(***************************************************************************)
(* Properties of strains_filtering                                         *)
(***************************************************************************)
\* C10 as stated: strains_filtering rejects a strain if and only if the
\* number of its present families that are in samples_panfamilies is below
\* similarity_pct percent of the number of its present families, the bound
\* not rounded: count < similarity_pct * |strain_families| / 100.
C10_RejectedIffBelowExactBound ==
    DOMAIN ssp # {} =>
        \A g \in Range(strains_list) :
            LET strain_families == genome2families[g]
                count == Cardinality(strain_families \cap Range(ssp.samples_panfamilies))
            IN  g \notin Range(ssp.selected_strains) <=>
                    RLt(Int2Rat(count),
                        RDiv(RMul(args.strain_similarity_perc,
                                  Int2Rat(Cardinality(strain_families))),
                             Int2Rat(100)))

\* the similarity percentages a strain is filtered again with
SimilarityGrid == {Int2Rat(10 * k) : k \in 0..10}

\* the presence of every family in every strain of the pangenome, as
\* strains_filtering receives it
AllStrainsPresence == build_strain2family2presence(strains_list, families, genome2families)

\* the strains that strains_filtering rejected
RejectedStrains == Range(strains_list) \ Range(ssp.selected_strains)

\* C11: strain rejection is monotonic in similarity_pct: with the same strain
\* family sets and the same samples_panfamilies, a strain that
\* strains_filtering rejected at similarity s1 is rejected at every s2 >= s1.
C11_RejectionMonotonic ==
    DOMAIN ssp # {} =>
        \A g \in RejectedStrains :
            \A s2 \in SimilarityGrid :
                RLe(args.strain_similarity_perc, s2) =>
                    strain_rejected(AllStrainsPresence[g], s2,
                                    ssp.samples_panfamilies, families)

\* strains_filtering has rejected one strain and kept the other at similarity
\* 50, and the kept strain is rejected at similarity 100
C11_RejectedAtFifty ==
    /\ DOMAIN ssp # {}
    /\ args.strain_similarity_perc = Int2Rat(50)
    /\ RejectedStrains # {}
    /\ \E g \in Range(ssp.selected_strains) :
          strain_rejected(AllStrainsPresence[g], Int2Rat(100),
                          ssp.samples_panfamilies, families)

(***************************************************************************)
(* Properties of the merged sample+strain matrix                           *)
(***************************************************************************)
\* samples_strains_presences has written the merged matrix
MergedPrinted ==
    /\ DOMAIN ssp # {}
    /\ pc # "error"
    /\ args.add_strains
    /\ AcceptedSamples # {} \/ ssp.selected_strains # <<>>

\* the families that are rows of the presence/absence file
PrintedFamilies == {o_dna.rows[k].family : k \in DOMAIN o_dna.rows}

C13_OnlyAllZeroFamiliesOmitted ==
    MergedPrinted =>
        \A f \in Range(families) \ PrintedFamilies :
            \A k \in Range(o_dna.cols) : ~ss_presence[k][f]

(***************************************************************************)
(* Properties of strains_gene_hit_percentage                               *)
(***************************************************************************)
\* strains_gene_hit_percentage has run with an accepted sample
HitsComputed == DOMAIN strain2sample2hit # {}

\* the families of strain g that are present in sample s
HitFamilies(g, s) == {f \in genome2families[g] : dna_sample2family2presence[s][f]}

\* C14: for every strain of the pangenome and every accepted sample the
\* gene-hit percentage is (number of the strain's families present in the
\* sample) / (number of families of the strain in the pangenome) * 100, the
\* denominator being the unfiltered family count, and lies between 0 and 100.
C14_HitPercentage ==
    HitsComputed =>
        /\ DOMAIN strain2sample2hit = DOMAIN genome2families
        /\ \A g \in DOMAIN genome2families :
              /\ DOMAIN strain2sample2hit[g] = AcceptedSamples
              /\ \A s \in AcceptedSamples :
                    LET hit == strain2sample2hit[g][s]
                    IN  /\ hit[1] * Cardinality(genome2families[g]) =
                              100 * Cardinality(HitFamilies(g, s)) * hit[2]
                        /\ RLe(RZero, hit)
                        /\ RLe(hit, Int2Rat(100))

\* the report holds a rejected strain, some of whose families are present in
\* an accepted sample and some are not
C14_PartialHitOfRejectedStrain ==
    /\ HitsComputed
    /\ o_hit.written
    /\ \E g \in RejectedStrains, s \in AcceptedSamples :
          /\ RLt(RZero, strain2sample2hit[g][s])
          /\ RLt(strain2sample2hit[g][s], Int2Rat(100))

(***************************************************************************)
(* SpecRna: STEP 4 to STEP 6b and STEP 8 for two DNA samples, each paired  *)
(* with an RNA file, on a pangenome of four families                       *)
(***************************************************************************)
\* two reference genomes with the same four families
RnaLayout == [g \in {1, 2} |-> {1, 2, 3, 4}]

\* the family coverages of the first DNA file: 0 or 4 for the first three
\* families, 0, 2, 4 or 10 for the last
DnaProfiles(fams) ==
    {d \in [Range(fams) -> {Int2Rat(0), Int2Rat(2), Int2Rat(4), Int2Rat(10)}] :
        \A f \in Range(fams) : f < Len(fams) => d[f] \in {Int2Rat(0), Int2Rat(4)}}

\* the family coverages of the second DNA file: 4, the last family 0 or 4
EvenDnaProfiles(fams) ==
    {[f \in Range(fams) |-> IF f < Len(fams) THEN Int2Rat(4) ELSE v] :
        v \in {Int2Rat(0), Int2Rat(4)}}

\* the family coverages of the first RNA file
RnaProfiles(fams) == [Range(fams) -> {Int2Rat(0), Int2Rat(4), Int2Rat(8)}]

\* no strain output, --rna_max_zeros z
RnaArgs(a, z) ==
    [a EXCEPT !.add_strains = FALSE, !.strain_hit_genes_perc = FALSE,
              !.rna_max_zeros = z]

InitRna ==
    \E a \in {RnaArgs(DefaultArgs, Int2Rat(10)), RnaArgs(DefaultArgs, Int2Rat(50)),
              RnaArgs(WideFilterArgs, Int2Rat(10)),
              RnaArgs([WideFilterArgs EXCEPT !.right_min = RZero], Int2Rat(10))} :
        LET m == build_mappings(layout_rows(RnaLayout))
        IN  \E d1 \in DnaProfiles(m.families), d2 \in EvenDnaProfiles(m.families),
               r1 \in RnaProfiles(m.families) :
               InitMain(m, <<d1, d2>>, a,
                        [s \in {1, 2} |-> RnaFileOf(s)],
                        [k \in {RnaFileOf(1), RnaFileOf(2)} |->
                            IF k = RnaFileOf(1) THEN r1
                            ELSE [f \in Range(m.families) |-> Int2Rat(4)]])

NextRna ==
    \/ NextDna
    \/ RnaSeq

SpecRna == InitRna /\ [][NextRna]_vars

\* rna_seq has run
RnaDone == DOMAIN rna # {}

\* the accepted DNA samples that have an RNA file
PairedSamples == {s \in AcceptedSamples : rna_file[s] # NO_RNA_FILE_KEY}

\* C15: in rna_seq, for every accepted DNA sample with a paired RNA file and
\* every family, the RNA/DNA ratio is 0.0 when the DNA family coverage is
\* exactly 0 and RNA family coverage / DNA family coverage otherwise; the
\* ratio is computed for every such sample and family, with no division error.
C15_RatioZeroWithoutDna ==
    RnaDone =>
        /\ DOMAIN rna.sample2family2rna_div_dna = PairedSamples
        /\ \A s \in PairedSamples :
              /\ DOMAIN rna.sample2family2rna_div_dna[s] = Range(families)
              /\ \A f \in Range(families) :
                    LET dna_cov == dna_samples_covs[s][f]
                        rna_cov == rna_samples_covs[rna_file[s]][f]
                        ratio   == rna.sample2family2rna_div_dna[s][f]
                    IN  IF dna_cov[1] = 0 THEN ratio = RZero
                        ELSE ratio[1] * dna_cov[1] * rna_cov[2] =
                                 rna_cov[1] * dna_cov[2] * ratio[2]

\* rna_seq has run on an accepted sample with a family that has RNA coverage
\* and no DNA coverage, and a family with twice as much RNA as DNA coverage
C15_RnaWithoutDnaReached ==
    /\ RnaDone
    /\ \E s \in PairedSamples :
          /\ \E f \in Range(families) :
                /\ dna_samples_covs[s][f] = RZero
                /\ RLt(RZero, rna_samples_covs[rna_file[s]][f])
          /\ \E f \in Range(families) :
                rna.sample2family2rna_div_dna[s][f] = Int2Rat(2)

(***************************************************************************)
(* Properties of rna_seq                                                   *)
(***************************************************************************)
\* rna_seq has run to its end
RnaReturned == RnaDone /\ ~rna.raises

\* the families of sample s with DNA index PRESENT
Plateau(s) == {f \in Range(families) : sample2family2dnaidx[s][f] = PRESENT}

\* the j-th smallest RNA/DNA ratio of the plateau families of sample s
KthRatio(s, j) ==
    LET ratio == rna.sample2family2rna_div_dna[s]
        f0 == CHOOSE f \in Plateau(s) :
                 /\ Cardinality({g \in Plateau(s) : RLt(ratio[g], ratio[f])}) < j
                 /\ Cardinality({g \in Plateau(s) : RLe(ratio[g], ratio[f])}) >= j
    IN  ratio[f0]

\* the median of the RNA/DNA ratios of the plateau families of sample s
PlateauMedian(s) ==
    LET n == Cardinality(Plateau(s))
    IN  IF n % 2 = 1 THEN KthRatio(s, (n + 1) \div 2)
        ELSE RDiv(RAdd(KthRatio(s, n \div 2), KthRatio(s, n \div 2 + 1)), Int2Rat(2))

\* C16: in rna_seq the median-normalized cell of (sample, family) follows the
\* DNA index.  PRESENT gives the float ratio / plateau_median, where
\* plateau_median is the median of the ratios of the sample's PRESENT
\* families (a number when that median is not 0.0, the float quotient inf or
\* nan when it is); ABSENT gives the non-present token, never a number;
\* AMBIGUOUS and MULTICOPY give the not-a-number token.
C16_CellByDnaIndex ==
    RnaReturned =>
        \A s \in PairedSamples, f \in Range(families) :
            LET idx   == sample2family2dnaidx[s][f]
                cell  == rna.sample2family2median_norm[s][f]
                ratio == rna.sample2family2rna_div_dna[s][f]
            IN  /\ idx = PRESENT =>
                      LET median == PlateauMedian(s)
                      IN  IF median[1] # 0
                          THEN /\ cell.kind = "num"
                               /\ REq(RMul(cell.v, median), ratio)
                          ELSE cell.kind = IF ratio[1] = 0 THEN "nan" ELSE "inf"
                /\ idx = ABSENT => cell = Cell("np_symbol")
                /\ idx \in {AMBIGUOUS, MULTICOPY} => cell = Cell("nan_symbol")
                /\ idx \in {PRESENT, ABSENT, AMBIGUOUS, MULTICOPY}

\* rna_seq has returned for a sample with a multicopy family and plateau
\* families of different ratios, one of them above the plateau median, and
\* for a sample with an absent family
C16_AllKindsOfCells ==
    /\ RnaReturned
    /\ \E s \in PairedSamples :
          /\ \E f \in Range(families) : sample2family2dnaidx[s][f] = MULTICOPY
          /\ \E f \in Plateau(s) :
                /\ rna.sample2family2median_norm[s][f].kind = "num"
                /\ RLt(Int2Rat(1), rna.sample2family2median_norm[s][f].v)
    /\ \E s \in PairedSamples :
          \E f \in Range(families) : sample2family2dnaidx[s][f] = ABSENT

\* C17 as stated: rna_seq rejects an RNA/DNA pair if and only if the plateau
\* families whose normalized RNA/DNA value is exactly 0.0 are more than
\* rna_max_zero_pct percent of its plateau families; a pair more than
\* rna_max_zero_pct percent of whose plateau families have zero RNA coverage
\* is no column of the RNA output.
C17_RejectedIffTooManyZeroes ==
    (RnaReturned /\ o_rna.written) =>
        \A s \in PairedSamples :
            LET zero_cells == {f \in Plateau(s) :
                                  rna.sample2family2median_norm[s][f] = Num(RZero)}
                zero_rna   == {f \in Plateau(s) :
                                  rna_samples_covs[rna_file[s]][f] = RZero}
                exceeds(S) == RLt(RMul(args.rna_max_zeros,
                                       Int2Rat(Cardinality(Plateau(s)))),
                                  Int2Rat(100 * Cardinality(S)))
            IN  /\ sample_name(s) \notin Range(o_rna.cols) <=> exceeds(zero_cells)
                /\ exceeds(zero_rna) => sample_name(s) \notin Range(o_rna.cols)

\* the samples rna_seq accepted, the columns of the expression matrix
SurvivingRnaSamples == {s \in PairedSamples : sample_name(s) \in Range(o_rna.cols)}

\* the families that are rows of the expression matrix
PrintedRnaFamilies == {o_rna.rows[k].family : k \in DOMAIN o_rna.rows}

\* C18: in the RNA/DNA expression matrix a family row is printed if and only
\* if its value is numeric, neither the non-present token nor the
\* not-a-number token, in at least one surviving RNA sample; in the surviving
\* samples the token cells go through the log step unchanged and a value of
\* exactly 0.0 stays 0.0.
C18_PrintedRowsAndLogStep ==
    (RnaReturned /\ o_rna.written) =>
        /\ SurvivingRnaSamples = Range(rna.rnaseq_accepted_samples)
        /\ PrintedRnaFamilies =
               {f \in Range(families) :
                   \E s \in SurvivingRnaSamples :
                       ~IsToken(rna.sample2family2median_norm[s][f])}
        /\ \A s \in SurvivingRnaSamples, f \in Range(families) :
               LET v == rna.sample2family2median_norm[s][f]
                   w == rna.sample2family2log_norm[s][f]
               IN  /\ IsToken(v) => w = v
                   /\ v = Num(RZero) => w = Num(RZero)
        /\ \A k \in DOMAIN o_rna.rows, i \in DOMAIN o_rna.cols :
               o_rna.rows[k].cells[i] =
                   rna.sample2family2log_norm[o_rna.cols[i][2]][o_rna.rows[k].family]

\* the expression matrix has two samples, a row with a token in one sample
\* and a number in the other, and a cell that is exactly 0.0
C18_TokenAndZeroPrinted ==
    /\ RnaReturned /\ o_rna.written
    /\ Len(o_rna.cols) = 2
    /\ \E k \in DOMAIN o_rna.rows :
          /\ \E i \in DOMAIN o_rna.cols : IsToken(o_rna.rows[k].cells[i])
          /\ \E i \in DOMAIN o_rna.cols : ~IsToken(o_rna.rows[k].cells[i])
    /\ \E k \in DOMAIN o_rna.rows :
          \E i \in DOMAIN o_rna.cols : o_rna.rows[k].cells[i] = Num(RZero)

(***************************************************************************)
(* check_args, from the check of the three DNA thresholds on: the options  *)
(* are parsed and the checks of the files and folders have passed          *)
(***************************************************************************)
\* an option that was not given
None == <<>>

MIN_NONPRESENT_TH == Rat(1, 20)

PRESENT_TH == Rat(1, 2)

MIN_PRESENT_TH == Rat(1, 10)

MIN_MULTICOPY_TH == Rat(3, 20)

\* variant: the default of version 1.0
COVERAGE_TH_v1 == Int2Rat(5)

COVERAGE_TH == Int2Rat(2)

RNA_MAX_ZERO_TH == Int2Rat(10)

SIMILARITY_TH == Int2Rat(50)

PARAMETER_ERROR_CODE == 2

\* none_is_smallest: how the interpreter evaluates None < number.  Python 2
\* orders None below every number, Python 3 raises TypeError.
check_args(parsed_args, none_is_smallest) ==
    LET a == parsed_args.th_zero
        b == parsed_args.th_present
        c == parsed_args.th_multicopy
        kept(ok) == [ok |-> ok, raises |-> FALSE, a |-> a, b |-> b, c |-> c]
        derived(p) == [ok |-> TRUE, raises |-> FALSE,
                       a |-> RDiv(p, Int2Rat(2)), b |-> p, c |-> RMul(Int2Rat(3), p)]
        th == IF b # None
              THEN IF RLt(b, MIN_PRESENT_TH) THEN kept(FALSE)
                   ELSE IF a # None
                        THEN IF RLt(a, MIN_NONPRESENT_TH) THEN kept(FALSE)
                             ELSE IF c = None
                                  THEN [kept(FALSE) EXCEPT !.raises = ~none_is_smallest]
                             ELSE IF RLt(c, MIN_MULTICOPY_TH) THEN kept(FALSE)
                             ELSE kept(RLt(a, b) /\ RLt(b, c))
                        ELSE derived(b)
              ELSE IF a = None THEN derived(PRESENT_TH) ELSE kept(FALSE)
        in_percent(v) == RLe(RZero, v) /\ RLe(v, Int2Rat(100))
        checked == [parsed_args EXCEPT
                       !.th_zero = th.a, !.th_present = th.b, !.th_multicopy = th.c,
                       !.min_coverage = IF RLt(@, RZero) THEN COVERAGE_TH ELSE @,
                       !.rna_max_zeros = IF in_percent(@) THEN @ ELSE RNA_MAX_ZERO_TH,
                       !.strain_similarity_perc =
                           IF in_percent(@) THEN @ ELSE SIMILARITY_TH]
    IN  IF th.raises
        THEN [outcome |-> "TypeError", code |-> None, args |-> parsed_args]
        ELSE IF ~th.ok
        THEN [outcome |-> "exit", code |-> PARAMETER_ERROR_CODE, args |-> parsed_args]
        ELSE IF RLe(parsed_args.left_max, parsed_args.right_min)
        THEN [outcome |-> "exit", code |-> PARAMETER_ERROR_CODE, args |-> parsed_args]
        ELSE [outcome |-> "return", code |-> None, args |-> checked]

(***************************************************************************)
(* SpecArgs: one call of check_args                                        *)
(***************************************************************************)
\* the thresholds given on the command line are twentieths up to
\* MaxTwentieth / 20, 0.5 or 1.5
MaxTwentieth == 5

ThresholdValues == {Rat(k, 20) : k \in 0..MaxTwentieth} \cup {Rat(1, 2), Rat(3, 2)}

\* --left_max and --right_min
PlateauValues == {Rat(1, 2), Rat(3, 4), Rat(5, 4)}

InitArgs ==
    /\ pc = "check_args"
    /\ \E a \in ThresholdValues \cup {None}, b \in ThresholdValues \cup {None},
          c \in ThresholdValues \cup {None}, l \in PlateauValues, r \in PlateauValues,
          cov \in {Int2Rat(-1), Int2Rat(0), Int2Rat(3)},
          pct \in {<<Int2Rat(0), Int2Rat(100)>>, <<Int2Rat(100), Int2Rat(0)>>,
                   <<Int2Rat(101), Int2Rat(-1)>>, <<Int2Rat(-1), Int2Rat(101)>>} :
          call = [th_zero |-> a, th_present |-> b, th_multicopy |-> c,
                  left_max |-> l, right_min |-> r, min_coverage |-> cov,
                  rna_max_zeros |-> pct[1], strain_similarity_perc |-> pct[2]]
    /\ ret = <<>>
    /\ IdleMain

CheckArgs ==
    /\ pc = "check_args"
    /\ \E none_is_smallest \in BOOLEAN : ret' = check_args(call, none_is_smallest)
    /\ pc' = "checked"
    /\ UNCHANGED <<mainVars, call>>

SpecArgs == InitArgs /\ [][CheckArgs]_vars

\* check_args has ended: it returned, called sys.exit or raised
Checked == pc = "checked"

(***************************************************************************)
(* Properties of check_args                                                *)
(***************************************************************************)
\* C19 as stated: whenever check_args returns, th_zero < th_present <
\* th_multicopy; every combination of --th_zero, --th_present and
\* --th_multicopy given by the user that violates the ordering or is
\* otherwise unacceptable (a value below its minimum) ends with the exit code
\* PARAMETER_ERROR_CODE; with only --th_present the others are th_present / 2
\* and 3 * th_present, and with none of them the thresholds are 0.25, 0.5, 1.5.
C19_ThresholdsValidated ==
    Checked =>
        LET a == call.th_zero
            b == call.th_present
            c == call.th_multicopy
            unordered == \/ a # None /\ b # None /\ ~RLt(a, b)
                         \/ b # None /\ c # None /\ ~RLt(b, c)
                         \/ a # None /\ c # None /\ ~RLt(a, c)
            too_low == \/ a # None /\ RLt(a, MIN_NONPRESENT_TH)
                       \/ b # None /\ RLt(b, MIN_PRESENT_TH)
                       \/ c # None /\ RLt(c, MIN_MULTICOPY_TH)
        IN  /\ ret.outcome = "return" =>
                  /\ RLt(ret.args.th_zero, ret.args.th_present)
                  /\ RLt(ret.args.th_present, ret.args.th_multicopy)
            /\ (unordered \/ too_low) =>
                  /\ ret.outcome = "exit"
                  /\ ret.code = PARAMETER_ERROR_CODE
            /\ (ret.outcome = "return" /\ a = None /\ c = None) =>
                  LET p == IF b = None THEN PRESENT_TH ELSE b
                  IN  /\ ret.args.th_present = p
                      /\ REq(RMul(ret.args.th_zero, Int2Rat(2)), p)
                      /\ REq(ret.args.th_multicopy, RMul(Int2Rat(3), p))

\* C20 as stated: processing only starts when left_max > right_min; a
\* configuration with left_max <= right_min ends check_args with the exit
\* code PARAMETER_ERROR_CODE.
C20_LeftMaxAboveRightMin ==
    Checked =>
        /\ ret.outcome = "return" => RLt(call.right_min, call.left_max)
        /\ RLe(call.left_max, call.right_min) =>
              /\ ret.outcome = "exit"
              /\ ret.code = PARAMETER_ERROR_CODE

\* C30: whenever check_args returns, min_coverage >= 0, 0 <= rna_max_zeros
\* <= 100 and 0 <= strain_similarity_perc <= 100: an out-of-range value of
\* one of the three options does not end the program but is replaced by its
\* default (2.0, 10.0, 50.0), an in-range value is left unchanged, and the
\* three options have no part in whether check_args returns.
C30_RangeDefaults ==
    Checked =>
        LET in_range(v) == RLe(RZero, v) /\ RLe(v, Int2Rat(100))
            same_thresholds(x) ==
                /\ x.th_zero = call.th_zero /\ x.th_present = call.th_present
                /\ x.th_multicopy = call.th_multicopy
                /\ x.left_max = call.left_max /\ x.right_min = call.right_min
        IN  /\ ret.outcome = "return" =>
                  /\ ret.args.min_coverage =
                         IF RLt(call.min_coverage, RZero) THEN Int2Rat(2)
                         ELSE call.min_coverage
                  /\ ret.args.rna_max_zeros =
                         IF in_range(call.rna_max_zeros) THEN call.rna_max_zeros
                         ELSE Int2Rat(10)
                  /\ ret.args.strain_similarity_perc =
                         IF in_range(call.strain_similarity_perc)
                         THEN call.strain_similarity_perc ELSE Int2Rat(50)
                  /\ RLe(RZero, ret.args.min_coverage)
                  /\ in_range(ret.args.rna_max_zeros)
                  /\ in_range(ret.args.strain_similarity_perc)
            /\ \A b \in BOOLEAN :
                  check_args([call EXCEPT !.min_coverage = COVERAGE_TH,
                                          !.rna_max_zeros = RNA_MAX_ZERO_TH,
                                          !.strain_similarity_perc = SIMILARITY_TH],
                             b).outcome = check_args(call, b).outcome

\* check_args has returned for a negative min_coverage, an rna_max_zeros
\* above 100 and a negative strain_similarity_perc
C30_OutOfRangeReturned ==
    /\ Checked
    /\ ret.outcome = "return"
    /\ RLt(call.min_coverage, RZero)
    /\ RLt(Int2Rat(100), call.rna_max_zeros)
    /\ RLt(call.strain_similarity_perc, RZero)

\* C29 as stated: whenever check_args returns, each of th_zero, th_present
\* and th_multicopy that was given on the command line is returned unchanged;
\* a given th_multicopy or th_zero is never replaced by a value derived from
\* th_present.
C29_GivenThresholdsKept ==
    (Checked /\ ret.outcome = "return") =>
        /\ call.th_zero # None => ret.args.th_zero = call.th_zero
        /\ call.th_present # None => ret.args.th_present = call.th_present
        /\ call.th_multicopy # None => ret.args.th_multicopy = call.th_multicopy

(***************************************************************************)
(* SpecGenomes: build_mappings on a pangenome of up to MaxGenomes          *)
(* reference genomes                                                       *)
(***************************************************************************)
MaxGenomes == 3

InitGenomes ==
    /\ pc = "build_mappings"
    /\ \E n \in 1..MaxGenomes :
          \E layout \in [1..n -> (SUBSET FamilyIds) \ {{}}] :
             call = [pangenome_file |-> layout_rows(layout), gene2cov |-> <<>>]
    /\ ret = 0
    /\ IdleMain

SpecGenomes == InitGenomes /\ [][NextCov]_vars

\* what build_mappings returned
Mappings == IF pc = "return" THEN ret.mappings ELSE ret

\* the j-th smallest number of families of a genome of the pangenome
KthGenomeSize(j) ==
    LET g2f == Mappings.genome2families
        size(g) == Cardinality(g2f[g])
        g0 == CHOOSE g \in DOMAIN g2f :
                 /\ Cardinality({h \in DOMAIN g2f : size(h) < size(g)}) < j
                 /\ Cardinality({h \in DOMAIN g2f : size(h) <= size(g)}) >= j
    IN  size(g0)

\* twice the median of the numbers of families of the genomes
TwiceMedianGenomeSize ==
    LET n == Cardinality(DOMAIN Mappings.genome2families)
    IN  IF n % 2 = 1 THEN 2 * KthGenomeSize((n + 1) \div 2)
        ELSE KthGenomeSize(n \div 2) + KthGenomeSize(n \div 2 + 1)

\* C23 (as the code has it): build_mappings returns avg_genome_length equal
\* to the median of the per-genome family-set sizes over all genomes of the
\* pangenome (for an even number of genomes the mean of the two middle
\* sizes), truncated to an integer.
C23_AvgGenomeLengthIsTruncatedMedian ==
    pc # "build_mappings" =>
        Mappings.avg_genome_length = TwiceMedianGenomeSize \div 2

\* build_mappings has returned for two genomes whose numbers of families
\* have an odd sum, and the length returned is below their mean
C23_HalfTruncated ==
    /\ pc # "build_mappings"
    /\ Cardinality(DOMAIN Mappings.genome2families) = 2
    /\ TwiceMedianGenomeSize % 2 = 1
    /\ 2 * Mappings.avg_genome_length < TwiceMedianGenomeSize

\* C23 as stated: avg_genome_length is the median itself.
C23_AsStated ==
    pc # "build_mappings" =>
        2 * Mappings.avg_genome_length = TwiceMedianGenomeSize

(***************************************************************************)
(* Properties of dna_sample_filtering                                      *)
(***************************************************************************)
\* C28: for every non-empty pangenome the two rank positions read by the
\* plateau filter, floor(0.3 * avg_genome_length) and
\* floor(0.7 * avg_genome_length), are below the number of families, the
\* length of the descending-sorted normalized coverage vector of every
\* sample, so dna_sample_filtering never reads out of range.
C28_RanksInRange ==
    /\ (3 * avg_genome_length) \div 10 < Len(families)
    /\ (7 * avg_genome_length) \div 10 < Len(families)
    /\ plateau_left_rank(avg_genome_length) <= (3 * avg_genome_length) \div 10
    /\ plateau_right_rank(avg_genome_length) <= (7 * avg_genome_length) \div 10
    /\ \A s \in DOMAIN median_normalized_covs :
          Len(median_normalized_covs[s]) = Len(families)
    /\ pc # "error"

\* dna_sample_filtering has accepted a sample of a pangenome whose genomes
\* all hold every family, so that the right rank is the last index
C28_LastIndexRead ==
    /\ Filtered
    /\ avg_genome_length = Len(families)
    /\ Len(families) > 1
    /\ plateau_right_rank(avg_genome_length) = Len(families) - 1
    /\ AcceptedSamples # {}

\* C27 as stated: rna_seq never divides by zero during normalization: every
\* accepted DNA sample with a paired RNA file has at least one PRESENT
\* family, and the plateau median of its RNA/DNA ratios is not zero.
C27_NoDivisionByZero ==
    RnaDone =>
        \A s \in PairedSamples :
            /\ Plateau(s) # {}
            /\ ~rna.raises
            /\ PlateauMedian(s)[1] # 0

(***************************************************************************)
(* Properties of the presence/absence matrix of STEP 6b                    *)
(***************************************************************************)
\* dna_presencing has returned and its file has not been replaced by the
\* merged sample+strain matrix
PresenceFileCurrent == Presenced /\ pc # "error" /\ (DOMAIN ssp = {} \/ ~args.add_strains)

\* C26: when at least one sample is accepted, the printed presence/absence
\* matrix has a row for a family if and only if the family is present in at
\* least one accepted sample, while the presence map returned by
\* dna_presencing holds a value for every family of the universe for every
\* accepted sample; when no sample is accepted, no presence/absence file is
\* written.
C26_PresenceRows ==
    Presenced =>
        /\ DOMAIN dna_sample2family2presence = AcceptedSamples
        /\ \A s \in AcceptedSamples :
              DOMAIN dna_sample2family2presence[s] = Range(families)
        /\ PresenceFileCurrent /\ args.o_dna /\ AcceptedSamples # {} =>
              /\ o_dna.written
              /\ PrintedFamilies =
                    {f \in Range(families) :
                        \E s \in AcceptedSamples : dna_sample2family2presence[s][f]}
              /\ \A k \in DOMAIN o_dna.rows :
                    \A j \in DOMAIN o_dna.rows : o_dna.rows[k].family = o_dna.rows[j].family => k = j
        /\ PresenceFileCurrent /\ AcceptedSamples = {} => ~o_dna.written

\* two samples are accepted, one family is present in one of them only and is
\* printed, another family is present in neither and has no row although the
\* returned map holds it
C26_RowOmittedButMapped ==
    /\ PresenceFileCurrent /\ args.o_dna
    /\ \E s \in AcceptedSamples, t \in AcceptedSamples, f \in Range(families), g \in Range(families) :
          /\ s # t
          /\ dna_sample2family2presence[s][f] /\ ~dna_sample2family2presence[t][f]
          /\ f \in PrintedFamilies
          /\ ~dna_sample2family2presence[s][g] /\ ~dna_sample2family2presence[t][g]
          /\ g \notin PrintedFamilies
          /\ g \in DOMAIN dna_sample2family2presence[s]

(***************************************************************************)
(* The plateau filter, sample by sample                                    *)
(***************************************************************************)
\* dna_sample_filtering called on samples_coverages with the arguments main
\* passes
FilterOf(samples_coverages) ==
    dna_sample_filtering(samples_coverages, avg_genome_length, args.min_coverage,
                         args.left_max, args.right_min, families)

\* coverages to put in the place of those of another sample: the step
\* coverages and the same coverage for every family
OtherCovs ==
    StepCovs(families) \cup {[f \in Range(families) |-> v] : v \in DnaCovVals}

\* C25: the plateau filter is a pure function per sample.  In every step
\* of dna_sample_filtering the decision and the normalized coverages of a
\* sample are those of the filter run on that sample alone, a second run on
\* the same input gives the same decisions, replacing the coverages of the
\* other samples by any other coverages leaves the sample's decision as it
\* is, and the input coverage maps are left unchanged.
C25_FilterPurePerSample ==
    [][pc = "dna_sample_filtering" =>
         /\ dna_samples_covs' = dna_samples_covs
         /\ FilterOf(dna_samples_covs').sample2accepted = sample2accepted'
         /\ \A s \in DOMAIN dna_samples_covs :
               LET alone == FilterOf([t \in {s} |-> dna_samples_covs[s]])
               IN  /\ sample2accepted'[s] = alone.sample2accepted[s]
                   /\ norm_dna_samples_covs'[s] = alone.norm_samples_coverages[s]
                   /\ \A t \in DOMAIN dna_samples_covs \ {s} :
                         \A c \in OtherCovs :
                            FilterOf([dna_samples_covs EXCEPT ![t] = c]).sample2accepted[s]
                                = sample2accepted'[s]
   ]_vars

\* the filter has run on two samples with different coverages, it accepted
\* one and rejected the other for its low median
C25_OneAcceptedOneRejected ==
    /\ Filtered
    /\ \E s \in AcceptedSamples, t \in RejectedSamples :
          /\ dna_samples_covs[s] # dna_samples_covs[t]
          /\ RLt(sample2median[t], args.min_coverage)
          /\ \E f \in Range(families) : RLt(RZero, dna_samples_covs[t][f])

(***************************************************************************)
(* SpecLines: build_mappings reading the lines of the pangenome file       *)
(***************************************************************************)
\* A field of a line is [kind, v]: the decimal numeral of the integer v
\* ("int"), a text that is no numeral, named by v ("text"), or a field that
\* is empty or white space ("blank").
Numeral(v) == [kind |-> "int", v |-> v]

Text(v) == [kind |-> "text", v |-> v]

Blank == [kind |-> "blank", v |-> 0]

\* line.strip().split('\t'): strip() takes the white space off both ends of
\* the line, the tabs that end a blank field included, so the blank fields at
\* the two ends are not among the words; a line of white space gives the one
\* word ''
strip_split(fields) ==
    LET solid == {i \in DOMAIN fields : fields[i].kind # "blank"}
    IN  IF solid = {} THEN <<Blank>>
        ELSE LET lo == CHOOSE i \in solid : \A j \in solid : i <= j
                 hi == CHOOSE i \in solid : \A j \in solid : j <= i
             IN  SubSeq(fields, lo, hi)

\* the assignment of line 1009 for one line: the six expressions are
\* evaluated from left to right, words[k] raises IndexError when the line has
\* no such word, int(w) raises ValueError when w is no numeral
parse_line(fields) ==
    LET words == strip_split(fields)
        n == Len(words)
    IN  IF n < 5 THEN [outcome |-> "IndexError", row |-> None]
        ELSE IF words[5].kind # "int" THEN [outcome |-> "ValueError", row |-> None]
        ELSE IF n < 6 THEN [outcome |-> "IndexError", row |-> None]
        ELSE IF words[6].kind # "int" THEN [outcome |-> "ValueError", row |-> None]
        ELSE [outcome |-> "ok",
              row |-> [fml |-> words[1].v, gene |-> words[2].v, genome |-> words[3].v,
                       fr |-> words[5].v, to |-> words[6].v]]

\* build_mappings on the lines of the file: the exception of the first line
\* that raises one leaves the function, nothing catches it
build_mappings_of_lines(lines) ==
    LET parsed == [i \in DOMAIN lines |-> parse_line(lines[i])]
        bad    == {i \in DOMAIN lines : parsed[i].outcome # "ok"}
    IN  IF bad # {}
        THEN [outcome  |-> parsed[CHOOSE i \in bad : \A j \in bad : i <= j].outcome,
              mappings |-> None]
        ELSE [outcome  |-> "return",
              mappings |-> build_mappings([i \in DOMAIN lines |-> parsed[i].row])]

\* the lines of the file: seven fields, or the first five or six of them, or
\* an empty line
FullLines ==
    {<<fml, Text(gene), Text(1), Text(1), fr, to, more>> :
        fml \in {Text(1), Text(2), Blank}, gene \in {1, 2},
        fr \in {Numeral(1), Numeral(7), Text(3)},
        to \in {Numeral(7), Text(3), Blank},
        more \in {Text(1), Blank}}

Lines == {SubSeq(l, 1, k) : l \in FullLines, k \in {0, 5, 6, 7}}

LineCounts == {1, 2}

InitLines ==
    /\ pc = "build_mappings"
    /\ \E n \in LineCounts : \E lines \in [1..n -> Lines] : call = [lines |-> lines]
    /\ ret = 0
    /\ IdleMain

BuildMappingsOfLines ==
    /\ pc = "build_mappings"
    /\ ret' = build_mappings_of_lines(call.lines)
    /\ pc' = IF ret'.outcome = "return" THEN "return" ELSE "error"
    /\ UNCHANGED <<mainVars, call>>

SpecLines == InitLines /\ [][BuildMappingsOfLines]_vars

\* a line with fewer than six tab-separated fields, or whose start or stop
\* field is not an integer
Malformed(fields) ==
    \/ Len(fields) < 6
    \/ fields[5].kind # "int"
    \/ fields[6].kind # "int"

\* C24: build_mappings fails with a MalformedRecordError, producing no
\* mappings, whenever a row of the pangenome file has fewer than six
\* tab-separated fields or a start or stop field that is not an integer.
C24_MalformedRecordError ==
    pc \in {"return", "error"} /\ (\E i \in DOMAIN call.lines : Malformed(call.lines[i])) =>
        /\ ret.outcome = "MalformedRecordError"
        /\ ret.mappings = None

(***************************************************************************)
(* SpecWrite: one writer of an output file, line by line, with a           *)
(* KeyboardInterrupt (or SystemExit) that may arrive while it writes.      *)
(* call is the writer and what it has to write, ret is the file:           *)
(* [exists, open, lines, interrupted].                                     *)
(***************************************************************************)
\* the stages that write with "with open(out_channel, mode='w') as csv"
WithWriters == {"print_coverage_matrix", "dna_indexing", "samples_strains_presences", "rna_seq"}

\* every stage that writes an output file: the four above, the gene-hit
\* report ("with" inside a try) and dna_presencing ("csv = open(...)")
Writers == WithWriters \cup {"strains_gene_hit_percentage", "dna_presencing"}

\* the number of lines of a file, the header included
OutputLines == 1..3

InitWrite ==
    /\ pc = "open"
    /\ \E w \in Writers, n \in OutputLines, to_be_printed \in BOOLEAN :
          call = [writer |-> w, lines |-> n, to_be_printed |-> to_be_printed]
    /\ ret = [exists |-> FALSE, open |-> FALSE, lines |-> 0, interrupted |-> FALSE]
    /\ IdleMain

\* the test before open(): an output file is asked for and there is a column
\* to print; open(mode='w') creates the file, empty
OpenOutput ==
    /\ pc = "open"
    /\ IF call.to_be_printed
       THEN /\ ret' = [ret EXCEPT !.exists = TRUE, !.open = TRUE]
            /\ pc' = "write"
       ELSE /\ ret' = ret
            /\ pc' = "return"
    /\ UNCHANGED <<mainVars, call>>

\* csv.write of the next line
WriteLine ==
    /\ pc = "write"
    /\ ret.lines < call.lines
    /\ ret' = [ret EXCEPT !.lines = @ + 1]
    /\ pc' = "write"
    /\ UNCHANGED <<mainVars, call>>

\* the end of the "with" block after the last line: the file is closed
ExitWith ==
    /\ pc = "write"
    /\ call.writer # "dna_presencing"
    /\ ret.lines = call.lines
    /\ ret' = [ret EXCEPT !.open = FALSE]
    /\ pc' = "return"
    /\ UNCHANGED <<mainVars, call>>

\* dna_presencing returns after its last line: nothing closes csv.  The
\* file object is closed when the interpreter frees it, at the return where
\* objects are freed with their last reference, later or at exit elsewhere.
ReturnUnclosed ==
    /\ pc = "write"
    /\ call.writer = "dna_presencing"
    /\ ret.lines = call.lines
    /\ \E still_open \in BOOLEAN : ret' = [ret EXCEPT !.open = still_open]
    /\ pc' = "return"
    /\ UNCHANGED <<mainVars, call>>

\* KeyboardInterrupt or SystemExit raised while the file is written.  A
\* "with" closes the file and lets the exception pass; the gene-hit report
\* catches it and removes the file, and goes on; dna_presencing has neither.
Interrupt ==
    /\ pc = "write"
    /\ IF call.writer \in WithWriters
       THEN /\ ret' = [ret EXCEPT !.open = FALSE, !.interrupted = TRUE]
            /\ pc' = "raised"
       ELSE IF call.writer = "strains_gene_hit_percentage"
       THEN /\ ret' = [exists |-> FALSE, open |-> FALSE, lines |-> 0, interrupted |-> TRUE]
            /\ pc' = "return"
       ELSE /\ ret' = [ret EXCEPT !.interrupted = TRUE]
            /\ pc' = "raised"
    /\ UNCHANGED <<mainVars, call>>

NextWrite == OpenOutput \/ WriteLine \/ ExitWith \/ ReturnUnclosed \/ Interrupt

SpecWrite == InitWrite /\ [][NextWrite]_vars

\* C21: if writing an output file is interrupted, the partially written
\* file is deleted and no truncated file is left behind, for every output
\* writer (coverage matrix, DNA index matrix, presence matrix, merged matrix,
\* gene-hit report, RNA matrix).
C21_InterruptedFileDeleted ==
    pc \in {"raised", "return"} /\ ret.interrupted => ~ret.exists

\* C22: every output file that a stage opens is closed by the time the
\* stage returns, on every exit path, the branches that write no file
\* included: no stage returns, or is left by an exception, with its output
\* file open.
C22_ClosedOnReturn ==
    pc \in {"raised", "return"} => ~ret.open

====
